---- MODULE Spec2Model ----
(***************************************************************************)
(* A model of capora-elf: the integer decoder (encoding.rs), the class     *)
(* selector (class.rs), the identification block parser (elf_ident.rs),    *)
(* the file header parser (elf_header.rs) and the file facade (lib.rs).    *)
(*                                                                         *)
(* Every operation of the crate is a pure function of a borrowed byte      *)
(* slice.  The state is the slice (data), the last call made on it (call)  *)
(* and what that call returned (result).  A call that would abort the      *)
(* process (an out-of-range index, a failed expect, todo!()) returns the   *)
(* distinguished result Panic.                                             *)
(*                                                                         *)
(* Integers wider than TLC's own are kept as base-256 numerals: a value is *)
(* [neg, mag] with mag the magnitude's bytes, most significant first.      *)
(***************************************************************************)
EXTENDS Integers, Sequences, FiniteSets, TLC

VARIABLES data, call, result

vars == <<data, call, result>>

(***************************************************************************)
(* Bounds of the model.                                                    *)
(***************************************************************************)
\* Longest slice handed to the integer decoder.
MaxLen == 9
\* Width of usize in bits (the crate is no_std; usize is the target's).
UsizeBits == 16
\* Longest decoder slice built from the wider byte alphabet.
ShortLen == 4
\* Bytes a file may carry beyond the structure being parsed.
ExtraLen == 1
\* Most entries of a program header table.
MaxEntries == 2

UsizeModulus == 2 ^ UsizeBits
UsizeMax == UsizeModulus - 1

Byte == 0..255

(***************************************************************************)
(* Results.                                                                *)
(***************************************************************************)
Ok(v) == [kind |-> "Ok", value |-> v]
Err(e) == [kind |-> "Err", err |-> e]
Panic == [kind |-> "Panic"]

NoCall == [op |-> "none"]
NoResult == [kind |-> "none"]

\* Option<T>
Some(v) == [some |-> TRUE, val |-> v]
None == [some |-> FALSE]

(***************************************************************************)
(* usize arithmetic and slice primitives of core.                          *)
(***************************************************************************)
\* usize::checked_sub
checked_sub(a, b) == IF b > a THEN None ELSE Some(a - b)

\* <[u8]>::first_chunk::<N>
first_chunk(s, n) == IF Len(s) < n THEN None ELSE Some(SubSeq(s, 1, n))

\* s[from..]; defined only for from <= Len(s), the callers model the panic
SliceFrom(s, from) == SubSeq(s, from + 1, Len(s))

Reverse(s) == [i \in 1..Len(s) |-> s[Len(s) + 1 - i]]

\* mem::size_of::<T>() of the six integer types
SizeOf(kind) ==
    CASE kind = "u8" -> 1
      [] kind = "u16" -> 2
      [] kind \in {"u32", "i32"} -> 4
      [] kind \in {"u64", "i64"} -> 8

IntKinds == {"u8", "u16", "u32", "u64", "i32", "i64"}
Signed(kind) == kind \in {"i32", "i64"}

(***************************************************************************)
(* Two's complement on numerals (bytes most significant first).            *)
(***************************************************************************)
\* 2^(8*Len(m)) - m, for m # 0: complement every byte, then add one
Negate(m) ==
    LET c == [i \in 1..Len(m) |-> 255 - m[i]]
        carry(i) == \A j \in (i + 1)..Len(m) : c[j] = 255
    IN  [i \in 1..Len(m) |-> IF carry(i) THEN (c[i] + 1) % 256 ELSE c[i]]

\* The integer a big-endian two's complement (or unsigned) numeral denotes.
FromNumeral(kind, be) ==
    IF Signed(kind) /\ be[1] >= 128
    THEN [neg |-> TRUE, mag |-> Negate(be)]
    ELSE [neg |-> FALSE, mag |-> be]

\* The value of a numeral that fits TLC's integers.
RECURSIVE NatOf(_)
NatOf(m) == IF m = <<>> THEN 0 ELSE NatOf(SubSeq(m, 1, Len(m) - 1)) * 256 + m[Len(m)]

\* An unsigned integer literal below 2^31 as a value of the given type.
Lit(kind, n) ==
    [neg |-> FALSE,
     mag |-> [i \in 1..SizeOf(kind) |->
                 IF SizeOf(kind) - i > 3 THEN 0
                 ELSE (n \div (256 ^ (SizeOf(kind) - i))) % 256]]

\* `v as usize` of an unsigned value no wider than usize
AsUsize(v) == NatOf(v.mag) % UsizeModulus

\* uN::from_le_bytes / iN::from_le_bytes
from_le_bytes(kind, chunk) == FromNumeral(kind, Reverse(chunk))

\* uN::from_be_bytes / iN::from_be_bytes
from_be_bytes(kind, chunk) == FromNumeral(kind, chunk)

(***************************************************************************)
(* encoding.rs                                                             *)
(***************************************************************************)
ArithmeticError == [tag |-> "ArithmeticError"]
BoundsError(o, s, n) ==
    [tag |-> "BoundsError", read_offset |-> o, read_size |-> s, data_size |-> n]

UnsupportedEncodingError(b) == [tag |-> "UnsupportedEncodingError", byte |-> b]

\* The values of the EncodingParse types: the two zero-sized readers and the
\* runtime-dispatching AnyEncoding(Encoding).
LittleEndian == [ty |-> "LittleEndian", enc |-> "ZST"]
BigEndian == [ty |-> "BigEndian", enc |-> "ZST"]
AnyEncoding(e) == [ty |-> "AnyEncoding", enc |-> e]

EncodingTypes == {"LittleEndian", "BigEndian", "AnyEncoding"}

\* The wrapping subtraction a reader without the checked_sub would perform.
LittleEndian_parse_at_wrapping(kind, offset, d) ==
    LET remaining_space == (Len(d) - offset) % UsizeModulus
    IN  IF remaining_space < SizeOf(kind)
        THEN Err(BoundsError(offset, SizeOf(kind), Len(d)))
        ELSE IF offset > Len(d)
        THEN Panic
        ELSE LET chunk == first_chunk(SliceFrom(d, offset), SizeOf(kind))
             IN  IF chunk.some THEN Ok(from_le_bytes(kind, chunk.val)) ELSE Panic

\* A little-endian reader that assembles its bytes most significant first.
LittleEndian_parse_at_be(kind, offset, d) ==
    LET remaining_space == checked_sub(Len(d), offset)
    IN  IF ~remaining_space.some
        THEN Err(ArithmeticError)
        ELSE IF remaining_space.val < SizeOf(kind)
        THEN Err(BoundsError(offset, SizeOf(kind), Len(d)))
        ELSE Ok(from_be_bytes(kind, first_chunk(SliceFrom(d, offset), SizeOf(kind)).val))

\* LittleEndian::parse_{u8,u16,u32,u64,i32,i64}_at: six copies of one body
\* that differ in the integer type only.
LittleEndian_parse_at(kind, offset, d) ==
    LET remaining_space == checked_sub(Len(d), offset)
    IN  IF ~remaining_space.some
        THEN Err(ArithmeticError)
        ELSE IF remaining_space.val < SizeOf(kind)
        THEN Err(BoundsError(offset, SizeOf(kind), Len(d)))
        ELSE IF offset > Len(d)
        THEN Panic                                   \* data[offset..]
        ELSE LET chunk == first_chunk(SliceFrom(d, offset), SizeOf(kind))
             IN  IF chunk.some
                 THEN Ok(from_le_bytes(kind, chunk.val))
                 ELSE Panic                          \* expect("broken sizing check")

\* A reader whose subtraction saturates at zero instead of failing.
BigEndian_parse_at_saturating(kind, offset, d) ==
    LET remaining_space == IF offset > Len(d) THEN 0 ELSE Len(d) - offset
    IN  IF remaining_space < SizeOf(kind)
        THEN Err(BoundsError(offset, SizeOf(kind), Len(d)))
        ELSE LET chunk == first_chunk(SliceFrom(d, offset), SizeOf(kind))
             IN  IF chunk.some
                 THEN Ok(from_be_bytes(kind, chunk.val))
                 ELSE Panic

\* BigEndian::parse_{u8,u16,u32,u64,i32,i64}_at
BigEndian_parse_at(kind, offset, d) ==
    LET remaining_space == checked_sub(Len(d), offset)
    IN  IF ~remaining_space.some
        THEN Err(ArithmeticError)
        ELSE IF remaining_space.val < SizeOf(kind)
        THEN Err(BoundsError(offset, SizeOf(kind), Len(d)))
        ELSE IF offset > Len(d)
        THEN Panic                                   \* data[offset..]
        ELSE LET chunk == first_chunk(SliceFrom(d, offset), SizeOf(kind))
             IN  IF chunk.some
                 THEN Ok(from_be_bytes(kind, chunk.val))
                 ELSE Panic                          \* expect("broken sizing check")

\* A dispatcher with its two arms exchanged.
AnyEncoding_parse_at_swapped(self, kind, offset, d) ==
    CASE self.enc = "TwosComplementLittleEndian" -> BigEndian_parse_at(kind, offset, d)
      [] self.enc = "TwosComplementBigEndian" -> LittleEndian_parse_at(kind, offset, d)

\* AnyEncoding::parse_{u8,u16,u32,u64,i32,i64}_at
AnyEncoding_parse_at(self, kind, offset, d) ==
    CASE self.enc = "TwosComplementLittleEndian" -> LittleEndian_parse_at(kind, offset, d)
      [] self.enc = "TwosComplementBigEndian" -> BigEndian_parse_at(kind, offset, d)

\* LittleEndian::from_elf_data
LittleEndian_from_elf_data(elf_ident_data) ==
    IF elf_ident_data # 1
    THEN Err(UnsupportedEncodingError(elf_ident_data))
    ELSE Ok(LittleEndian)

\* BigEndian::from_elf_data
BigEndian_from_elf_data(elf_ident_data) ==
    IF elf_ident_data # 2
    THEN Err(UnsupportedEncodingError(elf_ident_data))
    ELSE Ok(BigEndian)

\* A runtime selector that records the other byte order.
AnyEncoding_from_elf_data_swapped(elf_ident_data) ==
    CASE elf_ident_data = 1 -> Ok(AnyEncoding("TwosComplementBigEndian"))
      [] elf_ident_data = 2 -> Ok(AnyEncoding("TwosComplementLittleEndian"))
      [] OTHER -> Err(UnsupportedEncodingError(elf_ident_data))

\* AnyEncoding::from_elf_data
AnyEncoding_from_elf_data(elf_ident_data) ==
    CASE elf_ident_data = 1 -> Ok(AnyEncoding("TwosComplementLittleEndian"))
      [] elf_ident_data = 2 -> Ok(AnyEncoding("TwosComplementBigEndian"))
      [] OTHER -> Err(UnsupportedEncodingError(elf_ident_data))

\* <E as EncodingParse>::into_encoding
into_encoding(self) ==
    CASE self.ty = "LittleEndian" -> "TwosComplementLittleEndian"
      [] self.ty = "BigEndian" -> "TwosComplementBigEndian"
      [] self.ty = "AnyEncoding" -> self.enc

\* <E as EncodingParse>::from_elf_data, E chosen by the caller
from_elf_data(E, elf_ident_data) ==
    CASE E = "LittleEndian" -> LittleEndian_from_elf_data(elf_ident_data)
      [] E = "BigEndian" -> BigEndian_from_elf_data(elf_ident_data)
      [] E = "AnyEncoding" -> AnyEncoding_from_elf_data(elf_ident_data)

\* <E as EncodingParse>::parse_*_at on a value of E
parse_at(self, kind, offset, d) ==
    CASE self.ty = "LittleEndian" -> LittleEndian_parse_at(kind, offset, d)
      [] self.ty = "BigEndian" -> BigEndian_parse_at(kind, offset, d)
      [] self.ty = "AnyEncoding" -> AnyEncoding_parse_at(self, kind, offset, d)

(***************************************************************************)
(* class.rs                                                                *)
(***************************************************************************)
\* raw::elf_ident::Class::CLASS32.0 and CLASS64.0
CLASS32 == 1
CLASS64 == 2

UnsupportedClassError(b) == [tag |-> "UnsupportedClassError", byte |-> b]

\* The values of the ClassParse types.
Class32 == [ty |-> "Class32", class |-> "ZST"]
Class64 == [ty |-> "Class64", class |-> "ZST"]
AnyClass(c) == [ty |-> "AnyClass", class |-> c]

ClassTypes == {"Class32", "Class64", "AnyClass"}

\* A 32-bit-only selector that tests against the 64-bit constant.
Class32_from_elf_class_wrong(elf_ident_class) ==
    IF elf_ident_class # CLASS64
    THEN Err(UnsupportedClassError(elf_ident_class))
    ELSE Ok(Class32)

\* Class32::from_elf_class
Class32_from_elf_class(elf_ident_class) ==
    IF elf_ident_class # CLASS32
    THEN Err(UnsupportedClassError(elf_ident_class))
    ELSE Ok(Class32)

\* Class64::from_elf_class
Class64_from_elf_class(elf_ident_class) ==
    IF elf_ident_class # CLASS64
    THEN Err(UnsupportedClassError(elf_ident_class))
    ELSE Ok(Class64)

\* AnyClass::from_elf_class
AnyClass_from_elf_class(elf_ident_class) ==
    CASE elf_ident_class = CLASS32 -> Ok(AnyClass("Class32"))
      [] elf_ident_class = CLASS64 -> Ok(AnyClass("Class64"))
      [] OTHER -> Err(UnsupportedClassError(elf_ident_class))

\* <C as ClassParse>::into_class
into_class(self) ==
    CASE self.ty = "Class32" -> "Class32"
      [] self.ty = "Class64" -> "Class64"
      [] self.ty = "AnyClass" ->
            CASE self.class = "Class32" -> "Class32"
              [] self.class = "Class64" -> "Class64"

\* <C as ClassParse>::from_elf_class, C chosen by the caller
from_elf_class(C, elf_ident_class) ==
    CASE C = "Class32" -> Class32_from_elf_class(elf_ident_class)
      [] C = "Class64" -> Class64_from_elf_class(elf_ident_class)
      [] C = "AnyClass" -> AnyClass_from_elf_class(elf_ident_class)

(***************************************************************************)
(* The selectors driven on every byte.                                     *)
(***************************************************************************)
InitSelect ==
    /\ data = <<>>
    /\ call = NoCall
    /\ result = NoResult

\* C::from_elf_class(byte)
FromElfClass ==
    \E C \in ClassTypes, b \in Byte :
        /\ call = NoCall
        /\ call' = [op |-> "from_elf_class", ty |-> C, byte |-> b]
        /\ result' = from_elf_class(C, b)
        /\ UNCHANGED data

\* E::from_elf_data(byte)
FromElfData ==
    \E E \in EncodingTypes, b \in Byte :
        /\ call = NoCall
        /\ call' = [op |-> "from_elf_data", ty |-> E, byte |-> b]
        /\ result' = from_elf_data(E, b)
        /\ UNCHANGED data

NextSelect == FromElfClass \/ FromElfData

SpecSelect == InitSelect /\ [][NextSelect]_vars

(***************************************************************************)
(* raw/elf_ident.rs: the layout of the 16-byte identification block.       *)
(***************************************************************************)
\* mem::size_of::<RawElfIdent>()
SizeOf_ElfIdent == 16
\* mem::offset_of!(RawElfIdent, class), ..., and the size of _padding
OffsetOf_ElfIdent_class == 4
OffsetOf_ElfIdent_data == 5
OffsetOf_ElfIdent_header_version == 6
OffsetOf_ElfIdent_os_abi == 7
OffsetOf_ElfIdent_abi_version == 8
OffsetOf_ElfIdent_padding == 9
SizeOf_ElfIdent_padding == 7

\* ElfIdent::MAGIC_BYTES = [0x7F, b'E', b'L', b'F']
MAGIC_BYTES == <<127, 69, 76, 70>>
\* ElfIdent::CURRENT_VERSION
CURRENT_VERSION == 1

\* file[i] aborts for i >= file.len(); file[..n] for n > file.len()
IndexInRange(file, i) == i < Len(file)
At(file, i) == file[i + 1]

(***************************************************************************)
(* elf_ident.rs                                                            *)
(***************************************************************************)
ParseElfIdentError(tag) == [tag |-> tag]
ParseElfIdentError_From(inner) == [tag |-> inner.tag, inner |-> inner]

\* The view a parser returns: the slice and the two resolved tags.
View(file, class, encoding) == [slice |-> file, class |-> class, encoding |-> encoding]

\* ElfIdent::parse with the padding test of the file facade (all, == 0).
ElfIdent_parse_inverted_padding(C, E, file) ==
    IF Len(file) < SizeOf_ElfIdent
    THEN Err(ParseElfIdentError("FileTooSmall"))
    ELSE IF SubSeq(file, 1, 4) # MAGIC_BYTES
    THEN Err(ParseElfIdentError("InvalidMagicBytes"))
    ELSE LET class == from_elf_class(C, At(file, OffsetOf_ElfIdent_class))
             encoding == from_elf_data(E, At(file, OffsetOf_ElfIdent_data))
         IN  IF class.kind = "Err" THEN Err(ParseElfIdentError_From(class.err))
             ELSE IF encoding.kind = "Err" THEN Err(ParseElfIdentError_From(encoding.err))
             ELSE IF At(file, OffsetOf_ElfIdent_header_version) # CURRENT_VERSION
             THEN Err(ParseElfIdentError("UnsupportedElfHeaderVersion"))
             ELSE IF \A i \in 0..(SizeOf_ElfIdent_padding - 1) :
                        At(file, OffsetOf_ElfIdent_padding + i) = 0
             THEN Err(ParseElfIdentError("NonZeroPadding"))
             ELSE Ok(View(file, class.value, encoding.value))

\* ElfIdent::parse resolving the encoding before the class.
ElfIdent_parse_encoding_first(C, E, file) ==
    IF Len(file) < SizeOf_ElfIdent
    THEN Err(ParseElfIdentError("FileTooSmall"))
    ELSE IF SubSeq(file, 1, 4) # MAGIC_BYTES
    THEN Err(ParseElfIdentError("InvalidMagicBytes"))
    ELSE LET class == from_elf_class(C, At(file, OffsetOf_ElfIdent_class))
             encoding == from_elf_data(E, At(file, OffsetOf_ElfIdent_data))
         IN  IF encoding.kind = "Err" THEN Err(ParseElfIdentError_From(encoding.err))
             ELSE IF class.kind = "Err" THEN Err(ParseElfIdentError_From(class.err))
             ELSE IF At(file, OffsetOf_ElfIdent_header_version) # CURRENT_VERSION
             THEN Err(ParseElfIdentError("UnsupportedElfHeaderVersion"))
             ELSE IF \E i \in 0..(SizeOf_ElfIdent_padding - 1) :
                        At(file, OffsetOf_ElfIdent_padding + i) # 0
             THEN Err(ParseElfIdentError("NonZeroPadding"))
             ELSE Ok(View(file, class.value, encoding.value))

\* ElfIdent::<C, E>::parse
ElfIdent_parse(C, E, file) ==
    IF Len(file) < SizeOf_ElfIdent
    THEN Err(ParseElfIdentError("FileTooSmall"))
    ELSE IF Len(file) < 4
    THEN Panic                                                   \* file[..4]
    ELSE IF SubSeq(file, 1, 4) # MAGIC_BYTES
    THEN Err(ParseElfIdentError("InvalidMagicBytes"))
    ELSE IF ~IndexInRange(file, OffsetOf_ElfIdent_class)
    THEN Panic
    ELSE LET class == from_elf_class(C, At(file, OffsetOf_ElfIdent_class))
         IN  IF class.kind = "Err"
             THEN Err(ParseElfIdentError_From(class.err))
             ELSE IF ~IndexInRange(file, OffsetOf_ElfIdent_data)
             THEN Panic
             ELSE LET encoding == from_elf_data(E, At(file, OffsetOf_ElfIdent_data))
                  IN  IF encoding.kind = "Err"
                      THEN Err(ParseElfIdentError_From(encoding.err))
                      ELSE IF ~IndexInRange(file, OffsetOf_ElfIdent_header_version)
                      THEN Panic
                      ELSE IF At(file, OffsetOf_ElfIdent_header_version) # CURRENT_VERSION
                      THEN Err(ParseElfIdentError("UnsupportedElfHeaderVersion"))
                      ELSE IF Len(file) < OffsetOf_ElfIdent_padding + SizeOf_ElfIdent_padding
                      THEN Panic                   \* file[9..][..7]
                      ELSE IF \E i \in 0..(SizeOf_ElfIdent_padding - 1) :
                                 At(file, OffsetOf_ElfIdent_padding + i) # 0
                      THEN Err(ParseElfIdentError("NonZeroPadding"))
                      ELSE Ok(View(file, class.value, encoding.value))

(***************************************************************************)
(* Identification blocks: a well-formed block with each checked byte       *)
(* varied, cut to every length.                                            *)
(***************************************************************************)
MagicVariants == {MAGIC_BYTES, <<127, 69, 76, 0>>, <<0, 69, 76, 70>>}
ClassBytes == {1, 2, 3}
DataBytes == {0, 1, 2}
VersionBytes == {1, 2}
OsAbiBytes == {0, 255}
AbiVersionBytes == {0, 1}
\* No padding byte set, or the one at this index of the padding set to 1.
PaddingVariants == {-1, 0, 3, 6}

Padding(p) == [i \in 1..SizeOf_ElfIdent_padding |-> IF i = p + 1 THEN 1 ELSE 0]

\* Filler bytes past the identification block.
Filler(n) == [i \in 1..n |-> 0]

Prefix(s, n) == SubSeq(s, 1, IF n < Len(s) THEN n ELSE Len(s))

IdentBlock(m, c, d, v, o, a, p) == m \o <<c, d, v, o, a>> \o Padding(p)

IdentBlocks ==
    {IdentBlock(m, c, d, v, o, a, p) :
        m \in MagicVariants, c \in ClassBytes, d \in DataBytes, v \in VersionBytes,
        o \in OsAbiBytes, a \in AbiVersionBytes, p \in PaddingVariants}

IdentBuffers ==
    {Prefix(b \o Filler(ExtraLen), n) : b \in IdentBlocks, n \in 0..(SizeOf_ElfIdent + ExtraLen)}

InitIdent ==
    /\ data \in IdentBuffers
    /\ call = NoCall
    /\ result = NoResult

\* ElfIdent::<C, E>::parse(data)
ElfIdentParse ==
    \E C \in ClassTypes, E \in EncodingTypes :
        /\ call = NoCall
        /\ call' = [op |-> "ElfIdent::parse", C |-> C, E |-> E]
        /\ result' = ElfIdent_parse(C, E, data)
        /\ UNCHANGED data

NextIdent == ElfIdentParse

SpecIdent == InitIdent /\ [][NextIdent]_vars

(***************************************************************************)
(* raw/elf_header.rs, raw/elf_program_header.rs, raw/elf_section_header.rs:*)
(* the #[repr(C)] layout of the 64-bit structures.                         *)
(***************************************************************************)
\* CURRENT_OBJECT_FILE_VERSION
CURRENT_OBJECT_FILE_VERSION == 1
\* mem::size_of::<Elf64Header>()
SizeOf_Elf64Header == 64
\* mem::size_of::<Elf64ProgramHeader>()
SizeOf_Elf64ProgramHeader == 56
\* mem::size_of::<Elf64SectionHeader>()
SizeOf_Elf64SectionHeader == 64
\* mem::offset_of!(Elf64Header, <field>)
OffsetOf_Elf64Header_object_file_version == 20
OffsetOf_Elf64Header_elf_header_size == 52
OffsetOf_Elf64Header_program_header_entry_size == 54
OffsetOf_Elf64Header_section_header_entry_size == 58
OffsetOf_Elf64Header_type == 16
OffsetOf_Elf64Header_machine == 18
OffsetOf_Elf64Header_entry == 24
OffsetOf_Elf64Header_program_header_offset == 32
\* the field is spelled section_heaer_offset in the structure
OffsetOf_Elf64Header_section_header_offset == 40
OffsetOf_Elf64Header_flags == 48
OffsetOf_Elf64Header_program_header_count == 56
OffsetOf_Elf64Header_section_header_count == 60
OffsetOf_Elf64Header_section_header_string_table_index == 62
\* mem::size_of::<Elf32Header>() and mem::offset_of!(Elf32Header, <field>)
SizeOf_Elf32Header == 52
OffsetOf_Elf32Header_type == 16
OffsetOf_Elf32Header_machine == 18
OffsetOf_Elf32Header_object_file_version == 20
OffsetOf_Elf32Header_entry == 24
OffsetOf_Elf32Header_program_header_offset == 28
OffsetOf_Elf32Header_section_header_offset == 32
OffsetOf_Elf32Header_flags == 36
OffsetOf_Elf32Header_elf_header_size == 40
OffsetOf_Elf32Header_program_header_entry_size == 42
OffsetOf_Elf32Header_program_header_count == 44
OffsetOf_Elf32Header_section_header_entry_size == 46
OffsetOf_Elf32Header_section_header_count == 48
OffsetOf_Elf32Header_section_header_string_table_index == 50

(***************************************************************************)
(* elf_header.rs                                                           *)
(***************************************************************************)
ParseElfHeaderError(tag) == [tag |-> tag]
ParseElfHeaderError_From(inner) == [tag |-> "ParseElfIdentError", inner |-> inner]

\* The 64-bit arm without the test of the program header entry size.
ElfHeader_parse_class64_no_phentsize(file, class, encoding) ==
    IF Len(file) < SizeOf_Elf64Header
    THEN Err(ParseElfHeaderError("FileTooSmall"))
    ELSE LET object_file_version ==
                 parse_at(encoding, "u32", OffsetOf_Elf64Header_object_file_version, file)
             elf_header_size ==
                 parse_at(encoding, "u16", OffsetOf_Elf64Header_elf_header_size, file)
             program_header_entry_size ==
                 parse_at(encoding, "u16", OffsetOf_Elf64Header_program_header_entry_size, file)
             section_header_entry_size ==
                 parse_at(encoding, "u16", OffsetOf_Elf64Header_section_header_entry_size, file)
         IN  IF object_file_version.kind # "Ok"
             THEN Panic
             ELSE IF object_file_version.value # Lit("u32", CURRENT_OBJECT_FILE_VERSION)
             THEN Err(ParseElfHeaderError("UnsupportedElfFileVersion"))
             ELSE IF elf_header_size.kind # "Ok"
             THEN Panic
             ELSE IF AsUsize(elf_header_size.value) < SizeOf_Elf64Header
             THEN Err(ParseElfHeaderError("InvalidElfHeaderSize"))
             ELSE IF program_header_entry_size.kind # "Ok"
             THEN Panic
             ELSE IF section_header_entry_size.kind # "Ok"
             THEN Panic
             ELSE IF AsUsize(section_header_entry_size.value) < SizeOf_Elf64SectionHeader
             THEN Err(ParseElfHeaderError("InvalidSectionHeaderSize"))
             ELSE Ok(View(file, class, encoding))

\* The 64-bit arm rejecting a declared header size equal to the structure's.
ElfHeader_parse_class64_strict(file, class, encoding) ==
    IF Len(file) < SizeOf_Elf64Header
    THEN Err(ParseElfHeaderError("FileTooSmall"))
    ELSE LET object_file_version ==
                 parse_at(encoding, "u32", OffsetOf_Elf64Header_object_file_version, file)
             elf_header_size ==
                 parse_at(encoding, "u16", OffsetOf_Elf64Header_elf_header_size, file)
             program_header_entry_size ==
                 parse_at(encoding, "u16", OffsetOf_Elf64Header_program_header_entry_size, file)
             section_header_entry_size ==
                 parse_at(encoding, "u16", OffsetOf_Elf64Header_section_header_entry_size, file)
         IN  IF object_file_version.kind # "Ok"
             THEN Panic
             ELSE IF object_file_version.value # Lit("u32", CURRENT_OBJECT_FILE_VERSION)
             THEN Err(ParseElfHeaderError("UnsupportedElfFileVersion"))
             ELSE IF elf_header_size.kind # "Ok"
             THEN Panic
             ELSE IF AsUsize(elf_header_size.value) <= SizeOf_Elf64Header
             THEN Err(ParseElfHeaderError("InvalidElfHeaderSize"))
             ELSE IF program_header_entry_size.kind # "Ok"
             THEN Panic
             ELSE IF AsUsize(program_header_entry_size.value) < SizeOf_Elf64ProgramHeader
             THEN Err(ParseElfHeaderError("InvalidProgramHeaderSize"))
             ELSE IF section_header_entry_size.kind # "Ok"
             THEN Panic
             ELSE IF AsUsize(section_header_entry_size.value) < SizeOf_Elf64SectionHeader
             THEN Err(ParseElfHeaderError("InvalidSectionHeaderSize"))
             ELSE Ok(View(file, class, encoding))

\* A parser that tests the declared header size before the version.
ElfHeader_parse_class64_size_first(file, class, encoding) ==
    IF Len(file) < SizeOf_Elf64Header
    THEN Err(ParseElfHeaderError("FileTooSmall"))
    ELSE LET object_file_version ==
                 parse_at(encoding, "u32", OffsetOf_Elf64Header_object_file_version, file)
             elf_header_size ==
                 parse_at(encoding, "u16", OffsetOf_Elf64Header_elf_header_size, file)
             program_header_entry_size ==
                 parse_at(encoding, "u16", OffsetOf_Elf64Header_program_header_entry_size, file)
             section_header_entry_size ==
                 parse_at(encoding, "u16", OffsetOf_Elf64Header_section_header_entry_size, file)
         IN  IF elf_header_size.kind # "Ok"
             THEN Panic
             ELSE IF AsUsize(elf_header_size.value) < SizeOf_Elf64Header
             THEN Err(ParseElfHeaderError("InvalidElfHeaderSize"))
             ELSE IF object_file_version.kind # "Ok"
             THEN Panic
             ELSE IF object_file_version.value # Lit("u32", CURRENT_OBJECT_FILE_VERSION)
             THEN Err(ParseElfHeaderError("UnsupportedElfFileVersion"))
             ELSE IF program_header_entry_size.kind # "Ok"
             THEN Panic
             ELSE IF AsUsize(program_header_entry_size.value) < SizeOf_Elf64ProgramHeader
             THEN Err(ParseElfHeaderError("InvalidProgramHeaderSize"))
             ELSE IF section_header_entry_size.kind # "Ok"
             THEN Panic
             ELSE IF AsUsize(section_header_entry_size.value) < SizeOf_Elf64SectionHeader
             THEN Err(ParseElfHeaderError("InvalidSectionHeaderSize"))
             ELSE Ok(View(file, class, encoding))

\* The 64-bit arm of ElfHeader::parse.  The arm uses what parse_*_at
\* returns as the integer itself; a read that failed has no integer to give
\* and aborts.
ElfHeader_parse_class64(file, class, encoding) ==
    IF Len(file) < SizeOf_Elf64Header
    THEN Err(ParseElfHeaderError("FileTooSmall"))
    ELSE LET object_file_version ==
                 parse_at(encoding, "u32", OffsetOf_Elf64Header_object_file_version, file)
             elf_header_size ==
                 parse_at(encoding, "u16", OffsetOf_Elf64Header_elf_header_size, file)
             program_header_entry_size ==
                 parse_at(encoding, "u16", OffsetOf_Elf64Header_program_header_entry_size, file)
             section_header_entry_size ==
                 parse_at(encoding, "u16", OffsetOf_Elf64Header_section_header_entry_size, file)
         IN  IF object_file_version.kind # "Ok"
             THEN Panic
             ELSE IF object_file_version.value # Lit("u32", CURRENT_OBJECT_FILE_VERSION)
             THEN Err(ParseElfHeaderError("UnsupportedElfFileVersion"))
             ELSE IF elf_header_size.kind # "Ok"
             THEN Panic
             ELSE IF AsUsize(elf_header_size.value) < SizeOf_Elf64Header
             THEN Err(ParseElfHeaderError("InvalidElfHeaderSize"))
             ELSE IF program_header_entry_size.kind # "Ok"
             THEN Panic
             ELSE IF AsUsize(program_header_entry_size.value) < SizeOf_Elf64ProgramHeader
             THEN Err(ParseElfHeaderError("InvalidProgramHeaderSize"))
             ELSE IF section_header_entry_size.kind # "Ok"
             THEN Panic
             ELSE IF AsUsize(section_header_entry_size.value) < SizeOf_Elf64SectionHeader
             THEN Err(ParseElfHeaderError("InvalidSectionHeaderSize"))
             ELSE Ok(View(file, class, encoding))

\* ElfHeader::<C, E>::parse
ElfHeader_parse(C, E, file) ==
    LET elf_ident == ElfIdent_parse(C, E, file)
    IN  IF elf_ident.kind = "Err"
        THEN Err(ParseElfHeaderError_From(elf_ident.err))
        ELSE IF elf_ident.kind = "Panic"
        THEN Panic
        ELSE LET class == elf_ident.value.class
                 encoding == elf_ident.value.encoding
             IN  CASE into_class(class) = "Class32" -> Panic          \* todo!()
                   [] into_class(class) = "Class64" ->
                          ElfHeader_parse_class64(file, class, encoding)

\* The accessors use what parse_*_at returns as the integer itself; a read
\* that failed has no integer to give and aborts.
ReadValue(r) == IF r.kind = "Ok" THEN r ELSE Panic

\* `u32 as u64` with the sign bit copied into the upper half.
as_u64_sign_extending(v) ==
    [neg |-> FALSE,
     mag |-> [i \in 1..(8 - Len(v.mag)) |-> IF v.mag[1] >= 128 THEN 255 ELSE 0] \o v.mag]

\* `u32 as u64`: the unsigned value, widened with zeros
as_u64(v) == [neg |-> FALSE, mag |-> [i \in 1..(8 - Len(v.mag)) |-> 0] \o v.mag]

\* A returned u32 widened by `as u64`.
Widened(r) == IF r.kind = "Ok" THEN Ok(as_u64(r.value)) ELSE r

\* ElfHeader::elf_type
ElfHeader_elf_type(self) ==
    CASE into_class(self.class) = "Class32" ->
             ReadValue(parse_at(self.encoding, "u16",
                                OffsetOf_Elf32Header_type, self.slice))
      [] into_class(self.class) = "Class64" ->
             ReadValue(parse_at(self.encoding, "u16",
                                OffsetOf_Elf64Header_type, self.slice))

\* ElfHeader::machine
ElfHeader_machine(self) ==
    CASE into_class(self.class) = "Class32" ->
             ReadValue(parse_at(self.encoding, "u16",
                                OffsetOf_Elf32Header_machine, self.slice))
      [] into_class(self.class) = "Class64" ->
             ReadValue(parse_at(self.encoding, "u16",
                                OffsetOf_Elf64Header_machine, self.slice))

\* ElfHeader::object_file_version
ElfHeader_object_file_version(self) ==
    CASE into_class(self.class) = "Class32" ->
             ReadValue(parse_at(self.encoding, "u32",
                                OffsetOf_Elf32Header_object_file_version, self.slice))
      [] into_class(self.class) = "Class64" ->
             ReadValue(parse_at(self.encoding, "u32",
                                OffsetOf_Elf64Header_object_file_version, self.slice))

\* ElfHeader::entry
ElfHeader_entry(self) ==
    CASE into_class(self.class) = "Class32" ->
             Widened(ReadValue(parse_at(self.encoding, "u32",
                                        OffsetOf_Elf32Header_entry, self.slice)))
      [] into_class(self.class) = "Class64" ->
             ReadValue(parse_at(self.encoding, "u64",
                                OffsetOf_Elf64Header_entry, self.slice))

\* ElfHeader::program_header_offset
ElfHeader_program_header_offset(self) ==
    CASE into_class(self.class) = "Class32" ->
             Widened(ReadValue(parse_at(self.encoding, "u32",
                                        OffsetOf_Elf32Header_program_header_offset, self.slice)))
      [] into_class(self.class) = "Class64" ->
             ReadValue(parse_at(self.encoding, "u64",
                                OffsetOf_Elf64Header_program_header_offset, self.slice))

\* ElfHeader::section_header_offset
ElfHeader_section_header_offset(self) ==
    CASE into_class(self.class) = "Class32" ->
             Widened(ReadValue(parse_at(self.encoding, "u32",
                                        OffsetOf_Elf32Header_section_header_offset, self.slice)))
      [] into_class(self.class) = "Class64" ->
             ReadValue(parse_at(self.encoding, "u64",
                                OffsetOf_Elf64Header_section_header_offset, self.slice))

\* ElfHeader::flags
ElfHeader_flags(self) ==
    CASE into_class(self.class) = "Class32" ->
             ReadValue(parse_at(self.encoding, "u32",
                                OffsetOf_Elf32Header_flags, self.slice))
      [] into_class(self.class) = "Class64" ->
             ReadValue(parse_at(self.encoding, "u32",
                                OffsetOf_Elf64Header_flags, self.slice))

\* ElfHeader::elf_header_size
ElfHeader_elf_header_size(self) ==
    CASE into_class(self.class) = "Class32" ->
             ReadValue(parse_at(self.encoding, "u16",
                                OffsetOf_Elf32Header_elf_header_size, self.slice))
      [] into_class(self.class) = "Class64" ->
             ReadValue(parse_at(self.encoding, "u16",
                                OffsetOf_Elf64Header_elf_header_size, self.slice))

\* ElfHeader::program_header_entry_size
ElfHeader_program_header_entry_size(self) ==
    CASE into_class(self.class) = "Class32" ->
             ReadValue(parse_at(self.encoding, "u16",
                                OffsetOf_Elf32Header_program_header_entry_size, self.slice))
      [] into_class(self.class) = "Class64" ->
             ReadValue(parse_at(self.encoding, "u16",
                                OffsetOf_Elf64Header_program_header_entry_size, self.slice))

\* ElfHeader::program_header_count
ElfHeader_program_header_count(self) ==
    CASE into_class(self.class) = "Class32" ->
             ReadValue(parse_at(self.encoding, "u16",
                                OffsetOf_Elf32Header_program_header_count, self.slice))
      [] into_class(self.class) = "Class64" ->
             ReadValue(parse_at(self.encoding, "u16",
                                OffsetOf_Elf64Header_program_header_count, self.slice))

\* ElfHeader::section_header_entry_size
ElfHeader_section_header_entry_size(self) ==
    CASE into_class(self.class) = "Class32" ->
             ReadValue(parse_at(self.encoding, "u16",
                                OffsetOf_Elf32Header_section_header_entry_size, self.slice))
      [] into_class(self.class) = "Class64" ->
             ReadValue(parse_at(self.encoding, "u16",
                                OffsetOf_Elf64Header_section_header_entry_size, self.slice))

\* A count accessor that reads the section header offset field.
ElfHeader_section_header_count_at_offset(self) ==
    CASE into_class(self.class) = "Class32" ->
             ReadValue(parse_at(self.encoding, "u16",
                                OffsetOf_Elf32Header_section_header_offset, self.slice))
      [] into_class(self.class) = "Class64" ->
             ReadValue(parse_at(self.encoding, "u16",
                                OffsetOf_Elf64Header_section_header_offset, self.slice))

\* ElfHeader::section_header_count
ElfHeader_section_header_count(self) ==
    CASE into_class(self.class) = "Class32" ->
             ReadValue(parse_at(self.encoding, "u16",
                                OffsetOf_Elf32Header_section_header_count, self.slice))
      [] into_class(self.class) = "Class64" ->
             ReadValue(parse_at(self.encoding, "u16",
                                OffsetOf_Elf64Header_section_header_count, self.slice))

\* ElfHeader::section_header_string_table_index
ElfHeader_section_header_string_table_index(self) ==
    CASE into_class(self.class) = "Class32" ->
             ReadValue(parse_at(self.encoding, "u16",
                                OffsetOf_Elf32Header_section_header_string_table_index, self.slice))
      [] into_class(self.class) = "Class64" ->
             ReadValue(parse_at(self.encoding, "u16",
                                OffsetOf_Elf64Header_section_header_string_table_index, self.slice))

AccessorNames ==
    {"elf_type", "machine", "object_file_version",
     "entry", "program_header_offset", "section_header_offset",
     "flags", "elf_header_size", "program_header_entry_size",
     "program_header_count", "section_header_entry_size", "section_header_count",
     "section_header_string_table_index"}

\* The accessor of the given name applied to a view.
ElfHeader_accessor(self, name) ==
    CASE name = "elf_type" -> ElfHeader_elf_type(self)
      [] name = "machine" -> ElfHeader_machine(self)
      [] name = "object_file_version" -> ElfHeader_object_file_version(self)
      [] name = "entry" -> ElfHeader_entry(self)
      [] name = "program_header_offset" -> ElfHeader_program_header_offset(self)
      [] name = "section_header_offset" -> ElfHeader_section_header_offset(self)
      [] name = "flags" -> ElfHeader_flags(self)
      [] name = "elf_header_size" -> ElfHeader_elf_header_size(self)
      [] name = "program_header_entry_size" -> ElfHeader_program_header_entry_size(self)
      [] name = "program_header_count" -> ElfHeader_program_header_count(self)
      [] name = "section_header_entry_size" -> ElfHeader_section_header_entry_size(self)
      [] name = "section_header_count" -> ElfHeader_section_header_count(self)
      [] name = "section_header_string_table_index" -> ElfHeader_section_header_string_table_index(self)

(***************************************************************************)
(* lib.rs                                                                  *)
(***************************************************************************)
ParseElfFileError(tag) == [tag |-> tag]
ParseElfFileError_From(inner) ==
    [tag |-> CASE inner.tag = "UnsupportedClassError" -> "UnsupportedClass"
               [] inner.tag = "UnsupportedEncodingError" -> "UnsupportedEncoding"
               [] OTHER -> "ParseIntegerError",
     inner |-> inner]
InvalidMagicNumbers(bytes) == [tag |-> "InvalidMagicNumbers", bytes |-> bytes]
InvalidElfHeaderVersion(v) == [tag |-> "InvalidElfHeaderVersion", version |-> v]

\* ElfFile::parse from the padding check on
ElfFile_parse_padding(file) ==
    IF Len(file) < OffsetOf_ElfIdent_padding + SizeOf_ElfIdent_padding
    THEN Err(ParseElfFileError_From(
             BoundsError(OffsetOf_ElfIdent_padding, SizeOf_ElfIdent_padding, Len(file))))
    ELSE IF \A i \in 0..(SizeOf_ElfIdent_padding - 1) :
               At(file, OffsetOf_ElfIdent_padding + i) = 0
    THEN Err(ParseElfFileError("NonZeroPadding"))
    ELSE Panic                                                       \* todo!()

\* ElfFile::<C, E>::parse
ElfFile_parse(C, E, file) ==
    IF Len(file) < 4
    THEN Err(ParseElfFileError_From(BoundsError(0, 4, Len(file))))
    ELSE IF SubSeq(file, 1, 4) = MAGIC_BYTES
    THEN Err(InvalidMagicNumbers(SubSeq(file, 1, 4)))
    ELSE IF Len(file) < OffsetOf_ElfIdent_class + 1
    THEN Err(ParseElfFileError_From(BoundsError(0, 4, Len(file))))
    ELSE LET class == from_elf_class(C, At(file, OffsetOf_ElfIdent_class))
         IN  IF class.kind = "Err"
             THEN Err(ParseElfFileError_From(class.err))
             ELSE IF ~IndexInRange(file, OffsetOf_ElfIdent_data)
             THEN Panic                                              \* file[5]
             ELSE LET encoding == from_elf_data(E, At(file, OffsetOf_ElfIdent_data))
                  IN  IF encoding.kind = "Err"
                      THEN Err(ParseElfFileError_From(encoding.err))
                      ELSE LET header_version ==
                                   parse_at(encoding.value, "u8",
                                            OffsetOf_ElfIdent_header_version, file)
                           IN  IF header_version.kind # "Ok"
                               THEN IF header_version.kind = "Err"
                                    THEN Err(ParseElfFileError_From(header_version.err))
                                    ELSE Panic
                               ELSE IF header_version.value # Lit("u8", CURRENT_VERSION)
                               THEN Err(InvalidElfHeaderVersion(header_version.value))
                               ELSE ElfFile_parse_padding(file)

(***************************************************************************)
(* File headers: a well-formed 64-byte header after each identification    *)
(* block, the validated fields varied, cut to the lengths around the       *)
(* structures' sizes.                                                      *)
(***************************************************************************)
\* n < 2^16 written in w bytes in the given byte order
Put(order, n, w) ==
    LET le == [i \in 1..w |-> IF i > 2 THEN 0 ELSE (n \div (256 ^ (i - 1))) % 256]
    IN  IF order = "TwosComplementLittleEndian" THEN le ELSE Reverse(le)

\* A numeral (most significant byte first) written in the given byte order
PutNumeral(order, be) == IF order = "TwosComplementLittleEndian" THEN Reverse(be) ELSE be

ByteOrders == {"TwosComplementLittleEndian", "TwosComplementBigEndian"}

\* The fields after the identification block, in layout order.
Header64Fields(order, version, ehsize, phentsize, shentsize) ==
    Put(order, 2, 2) \o Put(order, 62, 2) \o Put(order, version, 4)
        \o Put(order, 4096, 8) \o Put(order, 64, 8) \o Put(order, 0, 8)
        \o Put(order, 0, 4) \o Put(order, ehsize, 2) \o Put(order, phentsize, 2)
        \o Put(order, 0, 2) \o Put(order, shentsize, 2) \o Put(order, 0, 2)
        \o Put(order, 0, 2)

HeaderIdents ==
    {IdentBlock(m, c, d, 1, 0, 0, p) :
        m \in {MAGIC_BYTES, <<127, 69, 76, 0>>}, c \in {1, 2}, d \in {1, 2}, p \in {-1, 0}}

HeaderBlocks ==
    {id \o Header64Fields(order, version, ehsize, phentsize, shentsize) :
        id \in HeaderIdents, order \in ByteOrders, version \in {0, 1, 2},
        ehsize \in {63, 64, 65}, phentsize \in {55, 56}, shentsize \in {63, 64}}

HeaderLengths ==
    {ShortLen, SizeOf_ElfIdent, SizeOf_Elf64Header - 1} \cup
        (SizeOf_Elf64Header..(SizeOf_Elf64Header + ExtraLen))

\* The ident byte that names a byte order.
DataByte(order) == IF order = "TwosComplementLittleEndian" THEN 1 ELSE 2

\* Headers that pass every size check and declare tables: the offsets and
\* counts of the two tables varied.  Offsets 54 and 55 are ten bytes before
\* the end of a 64- and a 65-byte buffer; the largest ones make offset +
\* count * entry size pass 2^64.
ProgramHeaderOffsets ==
    {<<0, 0, 0, 0, 0, 0, 0, 64>>, <<0, 0, 0, 0, 0, 0, 0, 54>>, <<0, 0, 0, 0, 0, 0, 0, 55>>,
     <<255, 255, 255, 255, 255, 255, 255, 255>>}
SectionHeaderOffsets ==
    {<<0, 0, 0, 0, 0, 0, 0, 0>>, <<0, 0, 0, 0, 0, 0, 0, 1>>,
     <<255, 255, 255, 255, 255, 255, 255, 192>>}
ProgramHeaderCounts == {0, 1, 2}
SectionHeaderCounts == {0, 1}

ExtentFields(order, phoff, phnum, shoff, shnum) ==
    Put(order, 2, 2) \o Put(order, 62, 2) \o Put(order, 1, 4)
        \o Put(order, 4096, 8) \o PutNumeral(order, phoff) \o PutNumeral(order, shoff)
        \o Put(order, 0, 4) \o Put(order, 64, 2) \o Put(order, 56, 2)
        \o Put(order, phnum, 2) \o Put(order, 64, 2) \o Put(order, shnum, 2)
        \o Put(order, 0, 2)

ExtentBlocks ==
    {IdentBlock(MAGIC_BYTES, 2, DataByte(order), 1, 0, 0, -1)
         \o ExtentFields(order, phoff, phnum, shoff, shnum) :
        order \in ByteOrders, phoff \in ProgramHeaderOffsets, phnum \in ProgramHeaderCounts,
        shoff \in SectionHeaderOffsets, shnum \in SectionHeaderCounts}

\* Headers whose every field holds bytes of its own: byte i of the fields is
\* base + i, base - i or 255, the object file version alone is the valid 1.
PatternBases == {<<128, 1>>, <<255, -1>>, <<255, 0>>}
PatternFields(order, base) ==
    [i \in 1..(SizeOf_Elf64Header - SizeOf_ElfIdent) |->
        IF i + SizeOf_ElfIdent - 1 \in OffsetOf_Elf64Header_object_file_version
                                        ..(OffsetOf_Elf64Header_object_file_version + 3)
        THEN Put(order, CURRENT_OBJECT_FILE_VERSION, 4)[
                 i + SizeOf_ElfIdent - OffsetOf_Elf64Header_object_file_version]
        ELSE base[1] + base[2] * i]

PatternBlocks ==
    {IdentBlock(MAGIC_BYTES, c, DataByte(order), 1, 0, 0, -1)
         \o SubSeq(PatternFields(order, base), 1, SizeOf_Elf64Header - SizeOf_ElfIdent) :
        c \in {1, 2}, order \in ByteOrders, base \in PatternBases}

HeaderBuffers ==
    {Prefix(b \o Filler(ExtraLen), n) :
        b \in HeaderBlocks \cup ExtentBlocks \cup PatternBlocks, n \in HeaderLengths}

InitHeader ==
    /\ data \in HeaderBuffers
    /\ call = NoCall
    /\ result = NoResult

\* ElfHeader::<C, E>::parse(data)
ElfHeaderParse ==
    \E C \in ClassTypes, E \in EncodingTypes :
        /\ call = NoCall
        /\ call' = [op |-> "ElfHeader::parse", C |-> C, E |-> E]
        /\ result' = ElfHeader_parse(C, E, data)
        /\ UNCHANGED data

\* An accessor called on the view a constructor returned
ElfHeaderAccessor ==
    \E name \in AccessorNames :
        /\ call.op \in {"ElfHeader::parse", "ElfHeader"}
        /\ result.kind = "Ok"
        /\ call' = [op |-> "ElfHeader::accessor", name |-> name, self |-> result.value]
        /\ result' = ElfHeader_accessor(result.value, name)
        /\ UNCHANGED data

NextHeader == ElfHeaderParse \/ ElfHeaderAccessor

SpecHeader == InitHeader /\ [][NextHeader]_vars

(***************************************************************************)
(* Header views of both classes.  ElfHeader::parse returns no 32-bit view  *)
(* (its 32-bit arm is todo!()); the accessors' 32-bit arms are driven on   *)
(* views built the way the last step of ElfHeader::parse builds them, from *)
(* the tags ElfIdent::parse resolved, on a buffer that holds the header of *)
(* its class.                                                              *)
(***************************************************************************)
ViewLengths == {SizeOf_Elf32Header} \cup (SizeOf_Elf64Header..(SizeOf_Elf64Header + ExtraLen))

ViewBuffers ==
    {b \in {Prefix(p \o Filler(ExtraLen), n) : p \in PatternBlocks, n \in ViewLengths} :
        b[5] = CLASS64 => Len(b) >= SizeOf_Elf64Header}

InitHeaderView ==
    /\ data \in ViewBuffers
    /\ call = NoCall
    /\ result = NoResult

\* ElfHeader { slice: data, class, encoding }
ElfHeaderNew ==
    \E C \in ClassTypes, E \in EncodingTypes :
        LET elf_ident == ElfIdent_parse(C, E, data)
        IN  /\ call = NoCall
            /\ elf_ident.kind = "Ok"
            /\ call' = [op |-> "ElfHeader", C |-> C, E |-> E]
            /\ result' = Ok(View(data, elf_ident.value.class, elf_ident.value.encoding))
            /\ UNCHANGED data

NextHeaderView == ElfHeaderNew \/ ElfHeaderAccessor

SpecHeaderView == InitHeaderView /\ [][NextHeaderView]_vars

(***************************************************************************)
(* The file facade driven on the identification blocks.                    *)
(***************************************************************************)
InitFile ==
    /\ data \in IdentBuffers
    /\ call = NoCall
    /\ result = NoResult

\* ElfFile::<C, E>::parse(data)
ElfFileParse ==
    \E C \in ClassTypes, E \in EncodingTypes :
        /\ call = NoCall
        /\ call' = [op |-> "ElfFile::parse", C |-> C, E |-> E]
        /\ result' = ElfFile_parse(C, E, data)
        /\ UNCHANGED data

NextFile == ElfFileParse

SpecFile == InitFile /\ [][NextFile]_vars

(***************************************************************************)
(* The integer decoder driven on every short slice.                        *)
(***************************************************************************)
\* Bytes the decoder's slices are built from: they tell the byte orders
\* apart and set the sign bit.
DecoderBytes == {1, 255}

SeqsUpTo(S, n) == UNION {[1..k -> S] : k \in 0..n}

\* Bytes of the short slices: zero, the sign bit alone, all ones.
EdgeBytes == {0, 128, 255}

DecoderSlices == SeqsUpTo(DecoderBytes, MaxLen) \cup SeqsUpTo(EdgeBytes, ShortLen)

\* Offsets inside, at and just past the slice, and at the top of usize.
DecoderOffsets == (0..(MaxLen + 1)) \cup {UsizeMax - k : k \in {0, 1, 3, 7}}

InitDecoder ==
    /\ data \in DecoderSlices
    /\ call = NoCall
    /\ result = NoResult

\* encoding.parse_<kind>_at(offset, data), encoding resolved from an ident byte
ParseIntegerAt ==
    \E E \in EncodingTypes, b \in {1, 2}, kind \in IntKinds, offset \in DecoderOffsets :
        /\ call = NoCall
        /\ from_elf_data(E, b).kind = "Ok"
        /\ LET self == from_elf_data(E, b).value
           IN  /\ call' = [op |-> "parse_at", self |-> self, byte |-> b,
                           kind |-> kind, offset |-> offset]
               /\ result' = parse_at(self, kind, offset, data)
        /\ UNCHANGED data

NextDecoder == ParseIntegerAt

SpecDecoder == InitDecoder /\ [][NextDecoder]_vars

(***************************************************************************)
(* u64 arithmetic on numerals (bytes most significant first).              *)
(***************************************************************************)
\* x < y, for numerals of one length
NumLess(x, y) ==
    \E j \in 1..Len(x) : x[j] < y[j] /\ \A k \in 1..(j - 1) : x[k] = y[k]

\* x - y, for numerals of one length with x >= y: byte i borrows when the
\* bytes below it of x are less than those of y
NumSub(x, y) ==
    LET diff == [i \in 1..Len(x) |->
                    LET borrow == NumLess(SubSeq(x, i + 1, Len(x)), SubSeq(y, i + 1, Len(y)))
                    IN  (256 + x[i] - y[i] - (IF borrow THEN 1 ELSE 0)) % 256]
    IN  SubSeq(diff, 1, Len(x))

\* 2 * r + bit, truncated to the length of r
NumDouble(r, bit) ==
    LET twice == [i \in 1..Len(r) |->
                     (2 * r[i] + (IF i = Len(r) THEN bit ELSE r[i + 1] \div 128)) % 256]
    IN  SubSeq(twice, 1, Len(r))

\* Bit k of a numeral, k = 1 the most significant
Bit(m, k) == (m[((k - 1) \div 8) + 1] \div (2 ^ (7 - ((k - 1) % 8)))) % 2

\* Binary long division: the remainder of the first k.. bits of m by a, r the
\* remainder of the bits before k.  One byte of headroom holds 2 * r + 1.
RECURSIVE RemBits(_, _, _, _)
RemBits(m, a, k, r) ==
    IF k > 8 * Len(m) THEN r
    ELSE LET d == NumDouble(r, Bit(m, k))
         IN  IF NumLess(d, a)
             THEN RemBits(m, a, k + 1, d)
             ELSE RemBits(m, a, k + 1, NumSub(d, a))

\* A power-of-two test that looks at the low four bytes only.
is_power_of_two_low_half(v) ==
    /\ Cardinality({i \in 5..Len(v.mag) : v.mag[i] # 0}) = 1
    /\ \A i \in 5..Len(v.mag) : v.mag[i] \in {0, 1, 2, 4, 8, 16, 32, 64, 128}

\* u64::is_power_of_two: exactly one bit set
is_power_of_two(v) ==
    /\ Cardinality({i \in 1..Len(v.mag) : v.mag[i] # 0}) = 1
    /\ \A i \in 1..Len(v.mag) : v.mag[i] \in {0, 1, 2, 4, 8, 16, 32, 64, 128}

\* The `%` of two u64 values, the divisor not zero
u64_rem(v, a) ==
    LET r == RemBits(<<0>> \o v.mag, <<0>> \o a.mag, 9, [i \in 1..(Len(v.mag) + 1) |-> 0])
    IN  [neg |-> FALSE, mag |-> SubSeq(r, 2, Len(r))]

\* A multiplication that wraps around usize instead of failing.
checked_mul_wrapping(a, b) ==
    Some(((((a \div 256) * b) % UsizeModulus) * 256 + (a % 256) * b) % UsizeModulus)

\* usize::checked_mul
checked_mul(a, b) ==
    IF a # 0 /\ b > UsizeMax \div a THEN None ELSE Some(a * b)

(***************************************************************************)
(* raw/elf_program_header.rs: the #[repr(C)] layout of Elf64ProgramHeader. *)
(***************************************************************************)
\* mem::offset_of!(Elf64ProgramHeader, <field>)
OffsetOf_Elf64ProgramHeader_type == 0
OffsetOf_Elf64ProgramHeader_flags == 4
OffsetOf_Elf64ProgramHeader_file_offset == 8
OffsetOf_Elf64ProgramHeader_virtual_address == 16
OffsetOf_Elf64ProgramHeader_physical_address == 24
OffsetOf_Elf64ProgramHeader_file_size == 32
OffsetOf_Elf64ProgramHeader_memory_size == 40
OffsetOf_Elf64ProgramHeader_alignment == 48

(***************************************************************************)
(* elf_program_header.rs                                                   *)
(***************************************************************************)
ParseElfProgramHeaderError(tag) == [tag |-> tag]

\* The accessors of ElfProgramHeader.  Each returns what the reader
\* returned; the 32-bit arm of each is todo!().
ElfProgramHeader_segment_type(self) ==
    CASE into_class(self.class) = "Class32" -> Panic
      [] into_class(self.class) = "Class64" ->
             parse_at(self.encoding, "u32", OffsetOf_Elf64ProgramHeader_type, self.slice)

ElfProgramHeader_flags(self) ==
    CASE into_class(self.class) = "Class32" -> Panic
      [] into_class(self.class) = "Class64" ->
             parse_at(self.encoding, "u32", OffsetOf_Elf64ProgramHeader_flags, self.slice)

ElfProgramHeader_file_offset(self) ==
    CASE into_class(self.class) = "Class32" -> Panic
      [] into_class(self.class) = "Class64" ->
             parse_at(self.encoding, "u64", OffsetOf_Elf64ProgramHeader_file_offset,
                      self.slice)

ElfProgramHeader_virtual_address(self) ==
    CASE into_class(self.class) = "Class32" -> Panic
      [] into_class(self.class) = "Class64" ->
             parse_at(self.encoding, "u64", OffsetOf_Elf64ProgramHeader_virtual_address,
                      self.slice)

ElfProgramHeader_physical_address(self) ==
    CASE into_class(self.class) = "Class32" -> Panic
      [] into_class(self.class) = "Class64" ->
             parse_at(self.encoding, "u64", OffsetOf_Elf64ProgramHeader_physical_address,
                      self.slice)

ElfProgramHeader_file_size(self) ==
    CASE into_class(self.class) = "Class32" -> Panic
      [] into_class(self.class) = "Class64" ->
             parse_at(self.encoding, "u64", OffsetOf_Elf64ProgramHeader_file_size,
                      self.slice)

ElfProgramHeader_memory_size(self) ==
    CASE into_class(self.class) = "Class32" -> Panic
      [] into_class(self.class) = "Class64" ->
             parse_at(self.encoding, "u64", OffsetOf_Elf64ProgramHeader_memory_size,
                      self.slice)

\* An alignment accessor that reads the last eight bytes of its slice.
ElfProgramHeader_alignment_from_end(self) ==
    CASE into_class(self.class) = "Class32" -> Panic
      [] into_class(self.class) = "Class64" ->
             parse_at(self.encoding, "u64", Len(self.slice) - 8, self.slice)

ElfProgramHeader_alignment(self) ==
    CASE into_class(self.class) = "Class32" -> Panic
      [] into_class(self.class) = "Class64" ->
             parse_at(self.encoding, "u64", OffsetOf_Elf64ProgramHeader_alignment,
                      self.slice)

\* The 64-bit arm without the congruence test.
ElfProgramHeader_parse_class64_no_congruence(slice, class, encoding) ==
    IF Len(slice) < SizeOf_Elf64ProgramHeader
    THEN Err(ParseElfProgramHeaderError("SliceTooSmall"))
    ELSE LET elf_program_header == View(slice, class, encoding)
             alignment == ElfProgramHeader_alignment(elf_program_header)
             virtual_address == ElfProgramHeader_virtual_address(elf_program_header)
             file_offset == ElfProgramHeader_file_offset(elf_program_header)
         IN  IF alignment.kind # "Ok"
             THEN Panic
             ELSE IF ~is_power_of_two(alignment.value) /\ alignment.value # Lit("u64", 0)
             THEN Err(ParseElfProgramHeaderError("InvalidAlignment"))
             ELSE IF alignment.value = Lit("u64", 0)
             THEN Ok(elf_program_header)
             ELSE IF virtual_address.kind # "Ok" \/ file_offset.kind # "Ok"
             THEN Panic
             ELSE Ok(elf_program_header)

\* The 64-bit arm without the test of the slice's length.
ElfProgramHeader_parse_class64_no_length(slice, class, encoding) ==
    IF FALSE
    THEN Err(ParseElfProgramHeaderError("SliceTooSmall"))
    ELSE LET elf_program_header == View(slice, class, encoding)
             alignment == ElfProgramHeader_alignment(elf_program_header)
             virtual_address == ElfProgramHeader_virtual_address(elf_program_header)
             file_offset == ElfProgramHeader_file_offset(elf_program_header)
         IN  IF alignment.kind # "Ok"
             THEN Panic
             ELSE IF ~is_power_of_two(alignment.value) /\ alignment.value # Lit("u64", 0)
             THEN Err(ParseElfProgramHeaderError("InvalidAlignment"))
             ELSE IF alignment.value = Lit("u64", 0)
             THEN Ok(elf_program_header)
             ELSE IF virtual_address.kind # "Ok" \/ file_offset.kind # "Ok"
             THEN Panic
             ELSE IF u64_rem(virtual_address.value, alignment.value)
                         # u64_rem(file_offset.value, alignment.value)
             THEN Err(ParseElfProgramHeaderError("UnalignedSegment"))
             ELSE Ok(elf_program_header)

\* The 64-bit arm of ElfProgramHeader::parse.  The arm uses what the
\* accessors return as the integers themselves; a read that failed has no
\* integer to give and aborts.
ElfProgramHeader_parse_class64(slice, class, encoding) ==
    IF Len(slice) < SizeOf_Elf64ProgramHeader
    THEN Err(ParseElfProgramHeaderError("SliceTooSmall"))
    ELSE LET elf_program_header == View(slice, class, encoding)
             alignment == ElfProgramHeader_alignment(elf_program_header)
             virtual_address == ElfProgramHeader_virtual_address(elf_program_header)
             file_offset == ElfProgramHeader_file_offset(elf_program_header)
         IN  IF alignment.kind # "Ok"
             THEN Panic
             ELSE IF ~is_power_of_two(alignment.value) /\ alignment.value # Lit("u64", 0)
             THEN Err(ParseElfProgramHeaderError("InvalidAlignment"))
             ELSE IF alignment.value = Lit("u64", 0)
             THEN Ok(elf_program_header)
             ELSE IF virtual_address.kind # "Ok" \/ file_offset.kind # "Ok"
             THEN Panic
             ELSE IF u64_rem(virtual_address.value, alignment.value)
                         # u64_rem(file_offset.value, alignment.value)
             THEN Err(ParseElfProgramHeaderError("UnalignedSegment"))
             ELSE Ok(elf_program_header)

\* ElfProgramHeader::parse
ElfProgramHeader_parse(slice, class, encoding) ==
    CASE into_class(class) = "Class32" -> Panic                       \* todo!()
      [] into_class(class) = "Class64" ->
             ElfProgramHeader_parse_class64(slice, class, encoding)

ParseElfProgramHeaderTableError(tag) == [tag |-> tag]
ParseElfProgramHeaderTableError_ParseElfProgramHeaderError(index, error) ==
    [tag |-> "ParseElfProgramHeaderError", index |-> index, error |-> error]

\* The value ElfProgramHeaderTable::parse returns.
TableView(slice, entry_count, entry_size, class, encoding) ==
    [slice |-> slice, entry_count |-> entry_count, entry_size |-> entry_size,
     class |-> class, encoding |-> encoding]

\* A loop that goes on after a failure and reports the last one.
RECURSIVE ElfProgramHeaderTable_parse_entries_last(_, _, _, _, _, _)
ElfProgramHeaderTable_parse_entries_last(slice, index, entry_count, entry_size, class, encoding) ==
    IF index >= entry_count
    THEN Ok(TableView(slice, entry_count, entry_size, class, encoding))
    ELSE IF index * entry_size > Len(slice)
    THEN Panic                                          \* slice[index * entry_size..]
    ELSE LET entry == ElfProgramHeader_parse(
                          SliceFrom(slice, index * entry_size), class, encoding)
         IN  CASE entry.kind = "Panic" -> Panic
               [] entry.kind = "Err" ->
                      LET rest == ElfProgramHeaderTable_parse_entries_last(
                                      slice, index + 1, entry_count, entry_size, class,
                                      encoding)
                      IN  IF rest.kind = "Ok"
                          THEN Err(ParseElfProgramHeaderTableError_ParseElfProgramHeaderError(
                                       index, entry.err))
                          ELSE rest
               [] entry.kind = "Ok" ->
                      ElfProgramHeaderTable_parse_entries_last(
                          slice, index + 1, entry_count, entry_size, class, encoding)

\* The loop of ElfProgramHeaderTable::parse from `index` on: the first entry
\* that does not parse ends it.
RECURSIVE ElfProgramHeaderTable_parse_entries(_, _, _, _, _, _)
ElfProgramHeaderTable_parse_entries(slice, index, entry_count, entry_size, class, encoding) ==
    IF index >= entry_count
    THEN Ok(TableView(slice, entry_count, entry_size, class, encoding))
    ELSE IF index * entry_size > Len(slice)
    THEN Panic                                          \* slice[index * entry_size..]
    ELSE LET entry == ElfProgramHeader_parse(
                          SliceFrom(slice, index * entry_size), class, encoding)
         IN  CASE entry.kind = "Panic" -> Panic
               [] entry.kind = "Err" ->
                      Err(ParseElfProgramHeaderTableError_ParseElfProgramHeaderError(
                              index, entry.err))
               [] entry.kind = "Ok" ->
                      ElfProgramHeaderTable_parse_entries(
                          slice, index + 1, entry_count, entry_size, class, encoding)

\* A parser that keeps a note of having run: any call after the first fails.
ElfProgramHeaderTable_parse_once(slice, entry_count, entry_size, class, encoding) ==
    LET total_size == checked_mul(entry_count, entry_size)
    IN  IF ~total_size.some \/ call # NoCall
        THEN Err(ParseElfProgramHeaderTableError("SliceTooSmall"))
        ELSE IF Len(slice) < total_size.val
        THEN Err(ParseElfProgramHeaderTableError("SliceTooSmall"))
        ELSE ElfProgramHeaderTable_parse_entries(
                 slice, 0, entry_count, entry_size, class, encoding)

\* ElfProgramHeaderTable::parse
ElfProgramHeaderTable_parse(slice, entry_count, entry_size, class, encoding) ==
    LET total_size == checked_mul(entry_count, entry_size)
    IN  IF ~total_size.some
        THEN Err(ParseElfProgramHeaderTableError("SliceTooSmall"))
        ELSE IF Len(slice) < total_size.val
        THEN Err(ParseElfProgramHeaderTableError("SliceTooSmall"))
        ELSE ElfProgramHeaderTable_parse_entries(
                 slice, 0, entry_count, entry_size, class, encoding)

\* A get that takes index = entry_count for an entry.
ElfProgramHeaderTable_get_off_by_one(self, index) ==
    IF index > self.entry_count
    THEN Ok(None)
    ELSE IF index * self.entry_size > Len(self.slice)
    THEN Panic
    ELSE Ok(Some(View(SliceFrom(self.slice, index * self.entry_size),
                      self.class, self.encoding)))

\* ElfProgramHeaderTable::get; the Option it returns is the value of Ok
ElfProgramHeaderTable_get(self, index) ==
    IF index >= self.entry_count
    THEN Ok(None)
    ELSE IF index * self.entry_size > Len(self.slice)
    THEN Panic                                   \* self.slice[index * self.entry_size..]
    ELSE Ok(Some(View(SliceFrom(self.slice, index * self.entry_size),
                      self.class, self.encoding)))

ProgramHeaderAccessorNames ==
    {"segment_type", "flags", "file_offset", "virtual_address",
     "physical_address", "file_size", "memory_size", "alignment"}

\* The accessor of the given name applied to an entry view; the accessors
\* use what the reader returns as the integer itself.
ElfProgramHeader_accessor(self, name) ==
    ReadValue(
        CASE name = "segment_type" -> ElfProgramHeader_segment_type(self)
          [] name = "flags" -> ElfProgramHeader_flags(self)
          [] name = "file_offset" -> ElfProgramHeader_file_offset(self)
          [] name = "virtual_address" -> ElfProgramHeader_virtual_address(self)
          [] name = "physical_address" -> ElfProgramHeader_physical_address(self)
          [] name = "file_size" -> ElfProgramHeader_file_size(self)
          [] name = "memory_size" -> ElfProgramHeader_memory_size(self)
          [] name = "alignment" -> ElfProgramHeader_alignment(self))

(***************************************************************************)
(* Program headers: 56-byte entries with the alignment, the virtual        *)
(* address and the file offset varied, in both byte orders.                *)
(***************************************************************************)
\* 0, 1, 3, 0x1000, 0x1001, 2^63, 2^64 - 1
AlignmentValues ==
    {<<0, 0, 0, 0, 0, 0, 0, 0>>, <<0, 0, 0, 0, 0, 0, 0, 1>>, <<0, 0, 0, 0, 0, 0, 0, 3>>,
     <<0, 0, 0, 0, 0, 0, 16, 0>>, <<0, 0, 0, 0, 0, 0, 16, 1>>,
     <<128, 0, 0, 0, 0, 0, 0, 0>>, <<255, 255, 255, 255, 255, 255, 255, 255>>}

\* 0x1004, 0x2000, 2^63 + 0x3000
VirtualAddressValues ==
    {<<0, 0, 0, 0, 0, 0, 16, 4>>, <<0, 0, 0, 0, 0, 0, 32, 0>>,
     <<128, 0, 0, 0, 0, 0, 48, 0>>}

\* 4, 0x2000
FileOffsetValues == {<<0, 0, 0, 0, 0, 0, 0, 4>>, <<0, 0, 0, 0, 0, 0, 32, 0>>}

\* One entry: PT_LOAD, flags R+X, sizes 0x10 and 0x20.
Entry64(order, file_offset, virtual_address, alignment) ==
    Put(order, 1, 4) \o Put(order, 5, 4)
        \o PutNumeral(order, file_offset) \o PutNumeral(order, virtual_address)
        \o PutNumeral(order, virtual_address)
        \o Put(order, 16, 8) \o Put(order, 32, 8) \o PutNumeral(order, alignment)

Entries64 ==
    {Entry64(order, fo, va, al) :
        order \in ByteOrders, fo \in FileOffsetValues, va \in VirtualAddressValues,
        al \in AlignmentValues}

\* 2^k as an 8-byte numeral
Pow2Numeral(k) == [i \in 1..8 |-> IF i = 8 - (k \div 8) THEN 2 ^ (k % 8) ELSE 0]

\* Entries with every power of two as the alignment (one written in either
\* byte order is one when read in the other).
PowerEntries64 ==
    {Entry64("TwosComplementLittleEndian", fo, va, SubSeq(Pow2Numeral(k), 1, 8)) :
        fo \in FileOffsetValues, va \in VirtualAddressValues, k \in 0..63}

EntryLengths ==
    {0, SizeOf_Elf64ProgramHeader - 1} \cup
        (SizeOf_Elf64ProgramHeader..(SizeOf_Elf64ProgramHeader + ExtraLen))

EntryBuffers ==
    {Prefix(e \o Filler(ExtraLen), n) : e \in Entries64 \cup PowerEntries64, n \in EntryLengths}

\* The values of the ClassParse and EncodingParse types a caller may pass.
ClassValues == {Class32, Class64, AnyClass("Class32"), AnyClass("Class64")}
EncodingValues ==
    {LittleEndian, BigEndian, AnyEncoding("TwosComplementLittleEndian"),
     AnyEncoding("TwosComplementBigEndian")}

InitProgramHeader ==
    /\ data \in EntryBuffers
    /\ call = NoCall
    /\ result = NoResult

\* ElfProgramHeader::parse(data, class, encoding)
ElfProgramHeaderParse ==
    \E class \in ClassValues, encoding \in EncodingValues :
        /\ call = NoCall
        /\ call' = [op |-> "ElfProgramHeader::parse", class |-> class,
                    encoding |-> encoding]
        /\ result' = ElfProgramHeader_parse(data, class, encoding)
        /\ UNCHANGED data

NextProgramHeader == ElfProgramHeaderParse

SpecProgramHeader == InitProgramHeader /\ [][NextProgramHeader]_vars

(***************************************************************************)
(* Program header tables: up to MaxEntries entries laid out with an entry  *)
(* size of 56 or more bytes, whole or cut short.                           *)
(***************************************************************************)
\* A well-formed entry and two that fail a check, little-endian.
TableEntries ==
    {Entry64("TwosComplementLittleEndian", <<0, 0, 0, 0, 0, 0, 32, 0>>,
             <<0, 0, 0, 0, 0, 0, 32, 0>>, al) :
        al \in {<<0, 0, 0, 0, 0, 0, 16, 0>>, <<0, 0, 0, 0, 0, 0, 0, 3>>}}
    \cup {Entry64("TwosComplementLittleEndian", <<0, 0, 0, 0, 0, 0, 32, 0>>,
                  <<0, 0, 0, 0, 0, 0, 16, 4>>, <<0, 0, 0, 0, 0, 0, 16, 0>>)}

\* Entries laid out entry_size = 56 + pad apart: packed, or ExtraLen apart.
RECURSIVE Layout(_, _)
Layout(entries, pad) ==
    IF entries = <<>> THEN <<>>
    ELSE Head(entries) \o Filler(pad) \o Layout(Tail(entries), pad)

TableLayouts ==
    {Layout(entries, pad) : entries \in SeqsUpTo(TableEntries, MaxEntries), pad \in {0, ExtraLen}}

TableBuffers ==
    TableLayouts \cup {Prefix(t, Len(t) - 1) : t \in TableLayouts \ {<<>>}}

\* Entry counts and entry sizes: none, a few, and the top of usize.
EntryCounts == (0..(MaxEntries + 1)) \cup {UsizeMax \div 2 + 1}
EntrySizes ==
    {0, 2, SizeOf_Elf64ProgramHeader - 1, UsizeMax}
        \cup (SizeOf_Elf64ProgramHeader..(SizeOf_Elf64ProgramHeader + ExtraLen))

InitTable ==
    /\ data \in TableBuffers
    /\ call = NoCall
    /\ result = NoResult

\* ElfProgramHeaderTable::parse(data, entry_count, entry_size, class, encoding);
\* with entry size 0 the loop runs entry_count times on one entry, so the
\* count is kept small there.
ElfProgramHeaderTableParse ==
    \E entry_count \in EntryCounts, entry_size \in EntrySizes,
       class \in {Class64, AnyClass("Class32")},
       encoding \in {LittleEndian, AnyEncoding("TwosComplementBigEndian")} :
        /\ call = NoCall
        /\ entry_size = 0 => entry_count <= MaxEntries + 1
        /\ call' = [op |-> "ElfProgramHeaderTable::parse", entry_count |-> entry_count,
                    entry_size |-> entry_size, class |-> class, encoding |-> encoding]
        /\ result' = ElfProgramHeaderTable_parse(data, entry_count, entry_size, class, encoding)
        /\ UNCHANGED data

\* The same call made a second time on the same buffer
ElfProgramHeaderTableParseAgain ==
    /\ call.op = "ElfProgramHeaderTable::parse"
    /\ call' = [op |-> "ElfProgramHeaderTable::parse again",
                entry_count |-> call.entry_count, entry_size |-> call.entry_size,
                class |-> call.class, encoding |-> call.encoding, first |-> result]
    /\ result' = ElfProgramHeaderTable_parse(data, call.entry_count, call.entry_size,
                                              call.class, call.encoding)
    /\ UNCHANGED data

\* Indices asked of a table: inside, at and past entry_count.
GetIndices == (0..(MaxEntries + 1)) \cup {UsizeMax}

\* table.get(index) on the table a parse returned
ElfProgramHeaderTableGet ==
    \E index \in GetIndices :
        /\ call.op = "ElfProgramHeaderTable::parse"
        /\ result.kind = "Ok"
        /\ call' = [op |-> "ElfProgramHeaderTable::get", self |-> result.value,
                    index |-> index]
        /\ result' = ElfProgramHeaderTable_get(result.value, index)
        /\ UNCHANGED data

\* An accessor called on the entry get returned
ElfProgramHeaderAccessor ==
    \E name \in ProgramHeaderAccessorNames :
        /\ call.op = "ElfProgramHeaderTable::get"
        /\ result.kind = "Ok"
        /\ result.value.some
        /\ call' = [op |-> "ElfProgramHeader::accessor", name |-> name,
                    self |-> result.value.val, table |-> call.self, index |-> call.index]
        /\ result' = ElfProgramHeader_accessor(result.value.val, name)
        /\ UNCHANGED data

NextTable ==
    \/ ElfProgramHeaderTableParse
    \/ ElfProgramHeaderTableParseAgain
    \/ ElfProgramHeaderTableGet
    \/ ElfProgramHeaderAccessor

SpecTable == InitTable /\ [][NextTable]_vars

(***************************************************************************)
(* Claims about the integer decoder (checked under SpecDecoder).           *)
(***************************************************************************)
IsParseAt == call.op = "parse_at"
Width == SizeOf(call.kind)
\* The bytes the call was asked to decode, when they lie inside the slice.
Window == SubSeq(data, call.offset + 1, call.offset + Width)
InBounds == call.offset + Width <= Len(data)

\* C1: every parse_*_at call of every strategy returns Ok or Err, never
\* aborts, also for an offset past the slice or at the top of usize, and
\* returns Ok only when offset + width <= data.len().
C1_DecoderNeverPanics ==
    IsParseAt =>
        /\ result.kind \in {"Ok", "Err"}
        /\ result.kind = "Ok" => InBounds

\* An offset for which offset + width overflows usize was rejected.
C1_Witness ==
    /\ IsParseAt
    /\ call.offset + Width > UsizeMax
    /\ result.kind = "Err"

\* C2: whenever offset + width > data.len() the decoder fails with
\* BoundsError { read_offset: offset, read_size: width, data_size: len }.
C2_BoundsErrorWheneverPastEnd ==
    (IsParseAt /\ ~InBounds) =>
        result = Err(BoundsError(call.offset, Width, Len(data)))

\* The two's complement numeral (most significant byte first) of a value.
TwosComplement(v) == IF v.neg THEN Negate(v.mag) ELSE v.mag

\* v written in the byte order of the reader self.
Written(self, v) ==
    IF into_encoding(self) = "TwosComplementLittleEndian"
    THEN Reverse(TwosComplement(v))
    ELSE TwosComplement(v)

\* The weight of byte i (1-based) of a w-byte window in the reader's order.
Weight(self, i, w) ==
    IF into_encoding(self) = "TwosComplementLittleEndian"
    THEN 256 ^ (i - 1)
    ELSE 256 ^ (w - i)

RECURSIVE WeightedSum(_, _, _)
WeightedSum(self, win, i) ==
    IF i > Len(win) THEN 0
    ELSE LET top == Weight(self, i, Len(win)) = 256 ^ (Len(win) - 1)
             b == IF top /\ Signed(call.kind) /\ win[i] >= 128 THEN win[i] - 256 ELSE win[i]
         IN  b * Weight(self, i, Len(win)) + WeightedSum(self, win, i + 1)

IntOf(v) == IF v.neg THEN 0 - NatOf(v.mag) ELSE NatOf(v.mag)

\* C3: round trip: when the window lies in the slice the call returns Ok(v)
\* where v written in the reader's byte order is the window; for the kinds
\* that fit (u8, u16, i32 above its minimum) v is the weighted sum of the window's bytes,
\* least significant first for little-endian, most significant first for
\* big-endian, and a signed v is negative exactly when the top bit is set.
C3_RoundTrip ==
    (IsParseAt /\ InBounds) =>
        /\ result.kind = "Ok"
        /\ Len(result.value.mag) = Width
        /\ Written(call.self, result.value) = Window
        /\ result.value.neg => Signed(call.kind)
        /\ Signed(call.kind) => (result.value.neg <=> TwosComplement(result.value)[1] >= 128)
        /\ (call.kind \in {"u8", "u16"} \/ (call.kind = "i32" /\ result.value.mag[1] < 128)) =>
               IntOf(result.value) = WeightedSum(call.self, Window, 1)

\* A negative i32 read little-endian from an asymmetric window past offset 0.
C3_Witness ==
    /\ IsParseAt /\ InBounds
    /\ call.self.ty = "LittleEndian"
    /\ call.kind = "i32"
    /\ call.offset = 1
    /\ Window # Reverse(Window)
    /\ result.kind = "Ok"
    /\ result.value.neg

\* C4: AnyEncoding resolved from ident byte 1 returns what LittleEndian
\* returns for the same kind, offset and slice, and resolved from byte 2
\* what BigEndian returns (the same Ok value or the same error).
C4_AnyEncodingEquivalent ==
    (IsParseAt /\ call.self.ty = "AnyEncoding") =>
        /\ call.byte = 1 =>
               result = LittleEndian_parse_at(call.kind, call.offset, data)
        /\ call.byte = 2 =>
               result = BigEndian_parse_at(call.kind, call.offset, data)

\* AnyEncoding resolved from byte 2 decoded a window the two orders read
\* differently.
C4_Witness ==
    /\ IsParseAt /\ InBounds
    /\ call.self.ty = "AnyEncoding"
    /\ call.byte = 2
    /\ result.kind = "Ok"
    /\ result # LittleEndian_parse_at(call.kind, call.offset, data)

(***************************************************************************)
(* Claims about the class and encoding selectors (checked under            *)
(* SpecSelect).                                                            *)
(***************************************************************************)
\* C5: over every byte b, Class32::from_elf_class(b) succeeds iff b = 1,
\* Class64's iff b = 2, AnyClass's iff b is 1 or 2 with into_class()
\* Class32 for 1 and Class64 for 2; every failure is UnsupportedClassError
\* carrying b.
C5_ClassSelection ==
    call.op = "from_elf_class" =>
        /\ result.kind = "Ok" <=>
               \/ call.ty = "Class32" /\ call.byte = 1
               \/ call.ty = "Class64" /\ call.byte = 2
               \/ call.ty = "AnyClass" /\ call.byte \in {1, 2}
        /\ result.kind = "Ok" =>
               /\ result.value.ty = call.ty
               /\ into_class(result.value) =
                      IF call.byte = 1 THEN "Class32" ELSE "Class64"
        /\ result.kind # "Ok" =>
               /\ result.kind = "Err"
               /\ result.err.tag = "UnsupportedClassError"
               /\ result.err.byte = call.byte

\* The 32-bit-only selector rejected the 64-bit value 2 with error value 2.
C5_Witness ==
    /\ call.op = "from_elf_class"
    /\ call.ty = "Class32"
    /\ call.byte = 2
    /\ result.kind = "Err"
    /\ result.err.byte = 2

\* C6: over every byte b, LittleEndian::from_elf_data(b) succeeds iff b = 1,
\* BigEndian's iff b = 2, AnyEncoding's iff b is 1 or 2 with
\* into_encoding() little-endian for 1 and big-endian for 2; every failure
\* is UnsupportedEncodingError carrying b.
C6_EncodingSelection ==
    call.op = "from_elf_data" =>
        /\ result.kind = "Ok" <=>
               \/ call.ty = "LittleEndian" /\ call.byte = 1
               \/ call.ty = "BigEndian" /\ call.byte = 2
               \/ call.ty = "AnyEncoding" /\ call.byte \in {1, 2}
        /\ result.kind = "Ok" =>
               /\ result.value.ty = call.ty
               /\ into_encoding(result.value) =
                      IF call.byte = 1 THEN "TwosComplementLittleEndian"
                                       ELSE "TwosComplementBigEndian"
        /\ result.kind # "Ok" =>
               /\ result.kind = "Err"
               /\ result.err.tag = "UnsupportedEncodingError"
               /\ result.err.byte = call.byte

\* The runtime selector resolved byte 2 to big-endian.
C6_Witness ==
    /\ call.op = "from_elf_data"
    /\ call.ty = "AnyEncoding"
    /\ call.byte = 2
    /\ result.kind = "Ok"
    /\ into_encoding(result.value) = "TwosComplementBigEndian"

(***************************************************************************)
(* Claims about the identification block parser (checked under SpecIdent). *)
(***************************************************************************)
IsIdentParse == call.op = "ElfIdent::parse"

\* The six checks on the bytes of the buffer, each on its own; a check on a
\* byte the buffer does not have counts as not failing.
Has(i) == i < Len(data)
TooShort == Len(data) < 16
BadMagic == Len(data) >= 4 /\ <<data[1], data[2], data[3], data[4]>> # <<127, 69, 76, 70>>
ClassSupported(C, b) ==
    \/ C = "Class32" /\ b = 1
    \/ C = "Class64" /\ b = 2
    \/ C = "AnyClass" /\ b \in {1, 2}
EncodingSupported(E, b) ==
    \/ E = "LittleEndian" /\ b = 1
    \/ E = "BigEndian" /\ b = 2
    \/ E = "AnyEncoding" /\ b \in {1, 2}
BadClass == Has(4) /\ ~ClassSupported(call.C, data[5])
BadEncoding == Has(5) /\ ~EncodingSupported(call.E, data[6])
BadVersion == Has(6) /\ data[7] # 1
BadPadding == \E i \in 9..15 : Has(i) /\ data[i + 1] # 0

ErrTag == IF result.kind = "Err" THEN result.err.tag ELSE "none"

\* C7: ElfIdent::parse reports the earliest failing check in the order
\* length, magic, class, encoding, header version, padding: a check that
\* fails with no earlier one failing decides the error, and the class and
\* encoding errors carry the offending byte.
C7_IdentFirstFailure ==
    IsIdentParse =>
        /\ TooShort => ErrTag = "FileTooSmall"
        /\ (~TooShort /\ BadMagic) => ErrTag = "InvalidMagicBytes"
        /\ (~TooShort /\ ~BadMagic /\ BadClass) =>
               /\ ErrTag = "UnsupportedClassError"
               /\ result.err.inner.byte = data[5]
        /\ (~TooShort /\ ~BadMagic /\ ~BadClass /\ BadEncoding) =>
               /\ ErrTag = "UnsupportedEncodingError"
               /\ result.err.inner.byte = data[6]
        /\ (~TooShort /\ ~BadMagic /\ ~BadClass /\ ~BadEncoding /\ BadVersion) =>
               ErrTag = "UnsupportedElfHeaderVersion"
        /\ (~TooShort /\ ~BadMagic /\ ~BadClass /\ ~BadEncoding /\ ~BadVersion
                /\ BadPadding) =>
               ErrTag = "NonZeroPadding"

\* A block failing the class, encoding, version and padding checks at once
\* was reported as an unsupported class.
C7_Witness ==
    /\ IsIdentParse
    /\ ~TooShort /\ ~BadMagic
    /\ BadClass /\ BadEncoding /\ BadVersion /\ BadPadding
    /\ ErrTag = "UnsupportedClassError"

\* C8: ElfIdent::parse returns a view iff the buffer has 16 bytes, the
\* magic, a class and an encoding the strategies support, header version 1
\* and seven zero padding bytes; the view borrows the whole buffer; bytes 7
\* and 8 play no part.
C8_IdentAcceptance ==
    IsIdentParse =>
        /\ result.kind \in {"Ok", "Err"}
        /\ result.kind = "Ok" <=>
               /\ Len(data) >= 16
               /\ SubSeq(data, 1, 4) = <<127, 69, 76, 70>>
               /\ ClassSupported(call.C, data[5])
               /\ EncodingSupported(call.E, data[6])
               /\ data[7] = 1
               /\ \A i \in 10..16 : data[i] = 0
        /\ result.kind = "Ok" =>
               /\ result.value.slice = data
               /\ result.value.class.ty = call.C
               /\ result.value.encoding.ty = call.E

\* A block with all-zero padding and nonzero OS/ABI and ABI-version bytes
\* was accepted.
C8_Witness ==
    /\ IsIdentParse
    /\ result.kind = "Ok"
    /\ data[8] = 255
    /\ data[9] = 1
    /\ \A i \in 10..16 : data[i] = 0

(***************************************************************************)
(* Claims about the file header parser (checked under SpecHeader) and the  *)
(* file facade (checked under SpecFile).                                   *)
(***************************************************************************)
\* C9: ElfHeader::parse never aborts: for every buffer and every pair of
\* strategies it returns a view or a ParseElfHeaderError, also for a valid
\* identification block whose class byte is 1.
C9_HeaderParseNeverAborts ==
    call.op = "ElfHeader::parse" => result.kind \in {"Ok", "Err"}

\* C10: ElfFile::parse never aborts: for every buffer of any length and
\* every pair of strategies it returns a view or a ParseElfFileError.
C10_FileParseNeverAborts ==
    call.op = "ElfFile::parse" => result.kind \in {"Ok", "Err"}

IsHeaderParse == call.op = "ElfHeader::parse"
IsHeaderAccessor == call.op = "ElfHeader::accessor"

\* The w bytes of the buffer at offset off as a numeral, most significant
\* byte first, in the byte order ident byte 5 declares.
Field(off, w) ==
    IF data[6] = 1
    THEN Reverse(SubSeq(data, off + 1, off + w))
    ELSE SubSeq(data, off + 1, off + w)

U16At(off) == NatOf(Field(off, 2))

\* The product of two 16-bit values as an 8-byte numeral.
Product(a, b) ==
    LET lo == (a % 256) * b
        hi == (a \div 256) * b
        t == (lo \div 256) + hi
    IN  <<0, 0, 0, 0, t \div 65536, (t \div 256) % 256, t % 256, lo % 256>>

\* x + y overflows the length of the numerals: some byte generates a carry
\* that every byte above it passes on.
NumAddOverflows(x, y) ==
    \E j \in 1..Len(x) : x[j] + y[j] > 255 /\ \A k \in 1..(j - 1) : x[k] + y[k] = 255

\* x + y, truncated to the length of the numerals
NumAdd(x, y) ==
    [i \in 1..Len(x) |->
        LET carry == NumAddOverflows(SubSeq(x, i + 1, Len(x)), SubSeq(y, i + 1, Len(y)))
        IN  (x[i] + y[i] + (IF carry THEN 1 ELSE 0)) % 256]

\* The declared extent of a table: offset + count * entry size.
ExtentOverflows(off, count, size) ==
    NumAddOverflows(Field(off, 8), Product(U16At(count), U16At(size)))
ExtentFits(off, count, size) ==
    /\ ~ExtentOverflows(off, count, size)
    /\ ~NumLess(Lit("u64", Len(data)).mag,
                NumAdd(Field(off, 8), Product(U16At(count), U16At(size))))

\* The buffer holds an identification block the strategies of the call
\* accept, for a 64-bit file.
Ident64Accepted ==
    /\ Len(data) >= 16
    /\ SubSeq(data, 1, 4) = <<127, 69, 76, 70>>
    /\ data[5] = 2
    /\ ClassSupported(call.C, data[5])
    /\ EncodingSupported(call.E, data[6])
    /\ data[7] = 1
    /\ \A i \in 10..16 : data[i] = 0

\* ... and 64 bytes with object file version 1
Version64Accepted ==
    /\ Ident64Accepted
    /\ Len(data) >= 64
    /\ Field(20, 4) = <<0, 0, 0, 1>>

\* ... and declared sizes of at least 64, 56 and 64
Sizes64Accepted ==
    /\ Version64Accepted
    /\ U16At(52) >= 64
    /\ U16At(54) >= 56
    /\ U16At(58) >= 64

\* C14: ElfHeader::parse rejects overflowing table extents: when, for the
\* program header table or the section header table, offset + count *
\* entry size overflows the 64-bit address type, parsing a header that
\* passes the earlier checks fails with an arithmetic-overflow error.
C14_HeaderRejectsOverflowingExtents ==
    (/\ IsHeaderParse
     /\ Sizes64Accepted
     /\ ExtentOverflows(32, 56, 54) \/ ExtentOverflows(40, 60, 58)) =>
        /\ result.kind = "Err"
        /\ result.err.tag = "ArithmeticError"

\* C15: every view ElfHeader::parse returns has program_header_offset +
\* program_header_count * program_header_entry_size <= buffer length and
\* the same for the section header table; a header with count 1, entry size
\* 56 and offset = buffer length - 10 is rejected with a bounds error.
C15_HeaderViewExtentsInBounds ==
    IsHeaderParse =>
        /\ result.kind = "Ok" => (ExtentFits(32, 56, 54) /\ ExtentFits(40, 60, 58))
        /\ (/\ Sizes64Accepted
            /\ U16At(56) = 1
            /\ U16At(54) = 56
            /\ Field(32, 8) = Lit("u64", Len(data) - 10).mag) =>
               /\ result.kind = "Err"
               /\ result.err.tag = "BoundsError"

\* C16: every view ElfHeader::parse returns for a 64-bit file lies on a
\* buffer of 64 or more bytes and declares elf_header_size >= 64,
\* program_header_entry_size >= 56 and section_header_entry_size >= 64; a
\* header that passes the checks before a declared size and declares that
\* size smaller is rejected with InvalidElfHeaderSize,
\* InvalidProgramHeaderSize or InvalidSectionHeaderSize respectively.
C16_HeaderViewDeclaredSizes ==
    IsHeaderParse =>
        /\ result.kind = "Ok" =>
               /\ Len(data) >= 64
               /\ U16At(52) >= 64
               /\ U16At(54) >= 56
               /\ U16At(58) >= 64
        /\ (Version64Accepted /\ U16At(52) < 64) => ErrTag = "InvalidElfHeaderSize"
        /\ (Version64Accepted /\ U16At(52) >= 64 /\ U16At(54) < 56) =>
               ErrTag = "InvalidProgramHeaderSize"
        /\ (Version64Accepted /\ U16At(52) >= 64 /\ U16At(54) >= 56 /\ U16At(58) < 64) =>
               ErrTag = "InvalidSectionHeaderSize"

\* A header one byte longer than the structure, declaring a header size of
\* 65, was accepted.
C16_Witness ==
    /\ IsHeaderParse
    /\ result.kind = "Ok"
    /\ Len(data) = 65
    /\ U16At(52) = 65
    /\ U16At(54) = 56

\* C17: a 63-byte buffer, a valid little-endian 64-bit identification
\* block and header less its last byte, fails with a bounds error that
\* reports a read offset of 56 or later, the size of the missing field (the
\* 2-byte field at 62) and buffer length 63.
C17_TruncatedHeaderBoundsError ==
    (/\ IsHeaderParse
     /\ Len(data) = 63
     /\ Ident64Accepted
     /\ data[6] = 1
     /\ Field(20, 4) = <<0, 0, 0, 1>>
     /\ U16At(52) = 64
     /\ U16At(54) >= 56
     /\ U16At(58) >= 64) =>
        /\ result.kind = "Err"
        /\ result.err.tag = "BoundsError"
        /\ result.err.read_offset >= 56
        /\ result.err.read_size = 2
        /\ result.err.data_size = 63

\* The buffer is a valid little-endian 64-bit identification block and
\* header of exactly 64 bytes that declares no tables.
Valid64LE ==
    /\ Len(data) = 64
    /\ SubSeq(data, 1, 7) = <<127, 69, 76, 70, 2, 1, 1>>
    /\ \A i \in 10..16 : data[i] = 0
    /\ Field(20, 4) = <<0, 0, 0, 1>>
    /\ U16At(52) = 64
    /\ U16At(54) >= 56
    /\ U16At(58) >= 64
    /\ U16At(56) = 0
    /\ U16At(60) = 0

\* The wire layout of the 64-bit file header: offset and width of the field
\* each accessor reports.
WireOffset64(name) ==
    CASE name = "elf_type" -> 16
      [] name = "machine" -> 18
      [] name = "object_file_version" -> 20
      [] name = "entry" -> 24
      [] name = "program_header_offset" -> 32
      [] name = "section_header_offset" -> 40
      [] name = "flags" -> 48
      [] name = "elf_header_size" -> 52
      [] name = "program_header_entry_size" -> 54
      [] name = "program_header_count" -> 56
      [] name = "section_header_entry_size" -> 58
      [] name = "section_header_count" -> 60
      [] name = "section_header_string_table_index" -> 62
WireWidth64(name) ==
    CASE name \in {"entry", "program_header_offset", "section_header_offset"} -> 8
      [] name \in {"object_file_version", "flags"} -> 4
      [] OTHER -> 2

\* C18: a valid little-endian 64-bit identification block and header of 64
\* bytes with no tables is accepted by ElfHeader::<AnyClass, AnyEncoding>::
\* parse; the view borrows the buffer, is 64-bit and little-endian, and
\* each accessor on it reports the value stored in its field.
C18_ValidHeaderAccepted ==
    /\ (IsHeaderParse /\ Valid64LE /\ call.C = "AnyClass" /\ call.E = "AnyEncoding") =>
           /\ result.kind = "Ok"
           /\ result.value.slice = data
           /\ into_class(result.value.class) = "Class64"
           /\ into_encoding(result.value.encoding) = "TwosComplementLittleEndian"
    /\ (/\ IsHeaderAccessor
        /\ Valid64LE
        /\ call.self.class.ty = "AnyClass"
        /\ call.self.encoding.ty = "AnyEncoding") =>
           /\ result.kind = "Ok"
           /\ ~result.value.neg
           /\ result.value.mag =
                  Reverse(SubSeq(data, WireOffset64(call.name) + 1,
                                 WireOffset64(call.name) + WireWidth64(call.name)))

\* entry() on the accepted view of a valid header reported the stored
\* 0x1000.
C18_Witness ==
    /\ IsHeaderAccessor
    /\ Valid64LE
    /\ call.self.class.ty = "AnyClass"
    /\ call.self.encoding.ty = "AnyEncoding"
    /\ call.name = "entry"
    /\ result = Ok([neg |-> FALSE, mag |-> <<0, 0, 0, 0, 0, 0, 16, 0>>])

\* C19: on a 64-bit view each accessor decodes its own field at the offset
\* the format fixes (type 16, machine 18, version 20, entry 24, program
\* header offset 32, section header offset 40, flags 48, header size 52,
\* program header entry size 54 and count 56, section header entry size 58
\* and count 60, string table index 62), in the view's byte order.
C19_Header64WireLayout ==
    (IsHeaderAccessor /\ into_class(call.self.class) = "Class64") =>
        /\ result.kind = "Ok"
        /\ ~result.value.neg
        /\ result.value.mag = Field(WireOffset64(call.name), WireWidth64(call.name))

\* section_header_count() on a big-endian view reported the 2-byte field at
\* 60 where the field at 40 holds other bytes.
C19_Witness ==
    /\ IsHeaderAccessor
    /\ into_class(call.self.class) = "Class64"
    /\ into_encoding(call.self.encoding) = "TwosComplementBigEndian"
    /\ call.name = "section_header_count"
    /\ result.kind = "Ok"
    /\ result.value.mag = <<data[61], data[62]>>
    /\ <<data[61], data[62]>> # <<data[41], data[42]>>
    /\ <<data[61], data[62]>> # <<data[47], data[48]>>

(***************************************************************************)
(* Claims about the header accessors on views of both classes (checked     *)
(* under SpecHeaderView).                                                  *)
(***************************************************************************)
\* The offset of the 4-byte field of the 32-bit file header.
WireOffset32(name) ==
    CASE name = "entry" -> 24
      [] name = "program_header_offset" -> 28
      [] name = "section_header_offset" -> 32

\* C20: entry(), program_header_offset() and section_header_offset() return
\* a u64 for both classes: on a 32-bit view the 4-byte field zero-extended
\* (0xFFFFFFFF gives 0x00000000FFFFFFFF, never a sign-extended value), on a
\* 64-bit view the 8-byte field unchanged.
C20_UniformU64Interface ==
    (/\ IsHeaderAccessor
     /\ call.name \in {"entry", "program_header_offset", "section_header_offset"}) =>
        /\ result.kind = "Ok"
        /\ ~result.value.neg
        /\ Len(result.value.mag) = 8
        /\ into_class(call.self.class) = "Class32" =>
               result.value.mag = <<0, 0, 0, 0>> \o Field(WireOffset32(call.name), 4)
        /\ into_class(call.self.class) = "Class64" =>
               result.value.mag = Field(WireOffset64(call.name), 8)

\* entry() on a 32-bit view whose field holds 0xFFFFFFFF returned
\* 0x00000000FFFFFFFF.
C20_Witness ==
    /\ IsHeaderAccessor
    /\ into_class(call.self.class) = "Class32"
    /\ call.name = "entry"
    /\ Field(24, 4) = <<255, 255, 255, 255>>
    /\ result = Ok([neg |-> FALSE, mag |-> <<0, 0, 0, 0, 255, 255, 255, 255>>])

(***************************************************************************)
(* Claims about the file facade (checked under SpecFile).                  *)
(***************************************************************************)
IsFileParse == call.op = "ElfFile::parse"

\* C12: ElfFile::parse fails with InvalidMagicNumbers, carrying the four
\* bytes found, exactly when the buffer has four bytes and they differ from
\* 7F 45 4C 46; a buffer that starts with the signature is never reported
\* as invalid magic.
C12_FacadeMagicCheck ==
    IsFileParse =>
        /\ ErrTag = "InvalidMagicNumbers" <=>
               (Len(data) >= 4 /\ SubSeq(data, 1, 4) # <<127, 69, 76, 70>>)
        /\ ErrTag = "InvalidMagicNumbers" => result.err.bytes = SubSeq(data, 1, 4)

\* C13: ElfFile::parse does not fail with NonZeroPadding when the seven
\* padding bytes 9..=15 are all zero, and a buffer of 16 or more bytes with
\* a nonzero padding byte that no earlier check rejected fails with
\* NonZeroPadding.
C13_FacadePaddingDirection ==
    IsFileParse =>
        /\ ErrTag = "NonZeroPadding" => BadPadding
        /\ (/\ Len(data) >= 16
            /\ BadPadding
            /\ ErrTag \notin {"InvalidMagicNumbers", "UnsupportedClass", "UnsupportedEncoding",
                               "InvalidElfHeaderVersion", "ParseIntegerError"})
               => ErrTag = "NonZeroPadding"

(***************************************************************************)
(* Claims about the program header parser (checked under                   *)
(* SpecProgramHeader) and the table parser (checked under SpecTable).      *)
(***************************************************************************)
\* C11: ElfProgramHeader::parse and ElfProgramHeaderTable::parse never
\* abort: for every slice, entry count, entry size, class tag and encoding
\* tag they return a view or an error value, also for a 32-bit class tag
\* with a table that is not empty.
C11_ProgramHeaderParseNeverAborts ==
    call.op \in {"ElfProgramHeader::parse", "ElfProgramHeaderTable::parse"} =>
        result.kind \in {"Ok", "Err"}

IsProgramHeaderParse == call.op = "ElfProgramHeader::parse"

\* The w bytes of the entry at offset off as a numeral, most significant
\* byte first, in the byte order the call was given.
EntryField(entry, encoding, off, w) ==
    IF into_encoding(encoding) = "TwosComplementLittleEndian"
    THEN Reverse(SubSeq(entry, off + 1, off + w))
    ELSE SubSeq(entry, off + 1, off + w)

Zero8 == <<0, 0, 0, 0, 0, 0, 0, 0>>
\* The numeral is 2^k for some k in 0..63.
IsPow2(m) == \E k \in 0..63 : m = SubSeq(Pow2Numeral(k), 1, 8)
\* Bit j of a numeral, j = 0 the least significant
LowBit(m, j) == (m[Len(m) - (j \div 8)] \div (2 ^ (j % 8))) % 2
\* x and y agree modulo the power of two a: on every bit below a's
Congruent(x, y, a) ==
    \A k \in 0..63 : a = SubSeq(Pow2Numeral(k), 1, 8) =>
        \A j \in 0..(k - 1) : LowBit(x, j) = LowBit(y, j)

\* What the format asks of one entry's bytes.
AlignmentValid(entry, encoding) ==
    LET al == EntryField(entry, encoding, 48, 8) IN al = Zero8 \/ IsPow2(al)
SegmentAligned(entry, encoding) ==
    LET al == EntryField(entry, encoding, 48, 8)
    IN  al = Zero8 \/ Congruent(EntryField(entry, encoding, 16, 8),
                                EntryField(entry, encoding, 8, 8), al)

\* C21: ElfProgramHeader::parse on a 64-bit entry of 56 or more bytes fails
\* with InvalidAlignment exactly when the 8-byte alignment field at offset
\* 48 is neither zero nor a power of two; zero and every power of two up to
\* 2^63 pass.
C21_InvalidAlignment ==
    (/\ IsProgramHeaderParse
     /\ into_class(call.class) = "Class64"
     /\ Len(data) >= 56) =>
        (ErrTag = "InvalidAlignment" <=> ~AlignmentValid(data, call.encoding))

\* An entry with alignment 3 was rejected as InvalidAlignment.
C21_Witness ==
    /\ IsProgramHeaderParse
    /\ into_class(call.class) = "Class64"
    /\ Len(data) >= 56
    /\ EntryField(data, call.encoding, 48, 8) = <<0, 0, 0, 0, 0, 0, 0, 3>>
    /\ ErrTag = "InvalidAlignment"

\* C22: for a 64-bit entry of 56 or more bytes whose alignment is a power
\* of two, ElfProgramHeader::parse succeeds iff virtual_address mod
\* alignment = file_offset mod alignment and fails with UnalignedSegment
\* otherwise; with alignment zero it succeeds without the test.
C22_UnalignedSegment ==
    (/\ IsProgramHeaderParse
     /\ into_class(call.class) = "Class64"
     /\ Len(data) >= 56) =>
        /\ IsPow2(EntryField(data, call.encoding, 48, 8)) =>
               /\ result.kind = "Ok" <=> SegmentAligned(data, call.encoding)
               /\ result.kind # "Ok" => ErrTag = "UnalignedSegment"
        /\ EntryField(data, call.encoding, 48, 8) = Zero8 => result.kind = "Ok"
        /\ result.kind = "Ok" => result.value.slice = data

\* Alignment 0x1000, virtual address 0x1004, file offset 0x2000 was rejected
\* as UnalignedSegment.
C22_Witness ==
    /\ IsProgramHeaderParse
    /\ into_class(call.class) = "Class64"
    /\ Len(data) >= 56
    /\ EntryField(data, call.encoding, 48, 8) = <<0, 0, 0, 0, 0, 0, 16, 0>>
    /\ EntryField(data, call.encoding, 16, 8) = <<0, 0, 0, 0, 0, 0, 16, 4>>
    /\ EntryField(data, call.encoding, 8, 8) = <<0, 0, 0, 0, 0, 0, 32, 0>>
    /\ ErrTag = "UnalignedSegment"

(***************************************************************************)
(* Claims about ElfProgramHeaderTable.  The expected outcome of an entry   *)
(* is read off its bytes with the bit tests above, not with the parser.    *)
(***************************************************************************)
IsTableParse ==
    call.op \in {"ElfProgramHeaderTable::parse", "ElfProgramHeaderTable::parse again"}
IsTableGet == call.op = "ElfProgramHeaderTable::get"
IsEntryAccessor == call.op = "ElfProgramHeader::accessor"

\* entry_count * entry_size <= Len(data), as a statement about naturals
TotalFits == call.entry_count = 0 \/ call.entry_size <= Len(data) \div call.entry_count

\* The bytes from entry i of the call to the end of the buffer
EntryBytes(i) == SliceFrom(data, i * call.entry_size)

\* What the format makes of one entry's bytes.
EntryOutcome(entry, encoding) ==
    IF Len(entry) < 56 THEN "SliceTooSmall"
    ELSE IF ~AlignmentValid(entry, encoding) THEN "InvalidAlignment"
    ELSE IF ~SegmentAligned(entry, encoding) THEN "UnalignedSegment"
    ELSE "Ok"

FailingEntries ==
    {i \in 0..(call.entry_count - 1) : EntryOutcome(EntryBytes(i), call.encoding) # "Ok"}

FirstFailing == CHOOSE i \in FailingEntries : \A j \in FailingEntries : i <= j

EntryError(index, tag) ==
    Err([tag |-> "ParseElfProgramHeaderError", index |-> index, error |-> [tag |-> tag]])

\* C23: for the 64-bit class and a table that fits its slice,
\* ElfProgramHeaderTable::parse succeeds when no entry fails and otherwise
\* returns ParseElfProgramHeaderError with the smallest failing index and
\* that entry's own failure, whatever the entries after it hold.
C23_FirstFailure ==
    (/\ IsTableParse
     /\ into_class(call.class) = "Class64"
     /\ TotalFits) =>
        IF FailingEntries = {}
        THEN result.kind = "Ok"
        ELSE result = EntryError(FirstFailing,
                                 EntryOutcome(EntryBytes(FirstFailing), call.encoding))

\* Entry 0 has an invalid alignment and entry 1 is unaligned: entry 0 is
\* the one reported.
C23_Witness ==
    /\ call.op = "ElfProgramHeaderTable::parse"
    /\ into_class(call.class) = "Class64"
    /\ call.entry_count = 2
    /\ TotalFits
    /\ call.entry_size >= 56
    /\ EntryOutcome(EntryBytes(0), call.encoding) = "InvalidAlignment"
    /\ EntryOutcome(EntryBytes(1), call.encoding) = "UnalignedSegment"
    /\ result = EntryError(0, "InvalidAlignment")

\* C24: on a table ElfProgramHeaderTable::parse returned, get(i) is Some
\* exactly for i < entry_count and None from entry_count on, and every
\* entry it returns has 56 bytes or more, an alignment that is zero or a
\* power of two, and a virtual address congruent to the file offset modulo
\* a nonzero alignment.
C24_TableViewInvariant ==
    IsTableGet =>
        /\ result.kind = "Ok"
        /\ result.value.some <=> call.index < call.self.entry_count
        /\ result.value.some =>
               /\ Len(result.value.val.slice) >= 56
               /\ AlignmentValid(result.value.val.slice, result.value.val.encoding)
               /\ SegmentAligned(result.value.val.slice, result.value.val.encoding)

\* get(1) on a table of two entries returned the second entry, and get(2)
\* would be past the end.
C24_Witness ==
    /\ IsTableGet
    /\ call.self.entry_count = 2
    /\ call.self.entry_size >= 56
    /\ call.index = 1
    /\ result.kind = "Ok"
    /\ result.value.some
    /\ EntryField(result.value.val.slice, result.value.val.encoding, 48, 8)
           = <<0, 0, 0, 0, 0, 0, 16, 0>>

\* The values of all accessors of all entries of a table view
TableValues(table) ==
    [i \in 0..(table.entry_count - 1) |->
        [name \in ProgramHeaderAccessorNames |->
            ElfProgramHeader_accessor(ElfProgramHeaderTable_get(table, i).value.val, name)]]

C27_CheckedTotal ==
    IsTableParse =>
        /\ ~TotalFits => result = Err(ParseElfProgramHeaderTableError("SliceTooSmall"))
        /\ result.kind = "Ok" =>
               /\ TotalFits
               /\ result.value = TableView(data, call.entry_count, call.entry_size,
                                           call.class, call.encoding)

\* A product that wraps around usize to a small number (more than half of
\* usize entries of two bytes) was refused on a slice that is not empty.
C27_Witness ==
    /\ call.op = "ElfProgramHeaderTable::parse"
    /\ call.entry_count > UsizeMax \div 2
    /\ call.entry_size = 2
    /\ Len(data) >= 56
    /\ result = Err(ParseElfProgramHeaderTableError("SliceTooSmall"))

\* C29: for the 64-bit class neither ElfProgramHeaderTable::parse nor get
\* aborts, whatever entry_count and entry_size are: every index below
\* entry_count starts inside the slice, a first failing entry with fewer
\* than 56 bytes left is reported as SliceTooSmall at its index, and with
\* entry_count 0 the parse succeeds.
C29_NoOutOfBounds ==
    /\ (IsTableParse /\ into_class(call.class) = "Class64") =>
           /\ result.kind # "Panic"
           /\ call.entry_count = 0 => result.kind = "Ok"
           /\ TotalFits =>
                  /\ \A i \in 0..(call.entry_count - 1) : i * call.entry_size <= Len(data)
                  /\ (/\ FailingEntries # {}
                      /\ Len(EntryBytes(FirstFailing)) < 56) =>
                         result = EntryError(FirstFailing, "SliceTooSmall")
    /\ (IsTableGet /\ into_class(call.self.class) = "Class64") =>
           /\ result.kind # "Panic"
           /\ result.value.some =>
                  /\ call.index * call.self.entry_size <= Len(data)
                  /\ result.value.val.slice = SliceFrom(data, call.index * call.self.entry_size)

\* Two entries two bytes apart on one valid 56-byte entry: entry 0 parses,
\* entry 1 has 54 bytes left and is reported, not read.
C29_Witness ==
    /\ call.op = "ElfProgramHeaderTable::parse"
    /\ into_class(call.class) = "Class64"
    /\ call.entry_count = 2
    /\ call.entry_size = 2
    /\ Len(data) = 56
    /\ result = EntryError(1, "SliceTooSmall")

\* Offset and width of the field an accessor reports, in Elf64ProgramHeader
WireOffsetProgramHeader(name) ==
    CASE name = "segment_type" -> 0
      [] name = "flags" -> 4
      [] name = "file_offset" -> 8
      [] name = "virtual_address" -> 16
      [] name = "physical_address" -> 24
      [] name = "file_size" -> 32
      [] name = "memory_size" -> 40
      [] name = "alignment" -> 48
WireWidthProgramHeader(name) == IF name \in {"segment_type", "flags"} THEN 4 ELSE 8

\* The 56 bytes of entry i of a table with entries entry_size apart
EntryWindow(i, entry_size) == SubSeq(data, i * entry_size + 1, i * entry_size + 56)

\* C30: the entry get(i) returns keeps every byte from i * entry_size to
\* the end of the table buffer, and each of its eight accessors returns
\* the field decoded from the 56 bytes at i * entry_size alone: the value
\* is a function of those bytes, the same in any buffer that holds them
\* there.
C30_EntryWindowOnly ==
    IsEntryAccessor =>
        /\ call.self.slice = SliceFrom(data, call.index * call.table.entry_size)
        /\ Len(call.self.slice) = Len(data) - call.index * call.table.entry_size
        /\ result = Ok([neg |-> FALSE,
                        mag |-> EntryField(EntryWindow(call.index, call.table.entry_size),
                                           call.self.encoding,
                                           WireOffsetProgramHeader(call.name),
                                           WireWidthProgramHeader(call.name))])

\* The alignment of entry 0 of a two-entry table was read from a view whose
\* slice holds the second entry as well.
C30_Witness ==
    /\ IsEntryAccessor
    /\ call.name = "alignment"
    /\ call.index = 0
    /\ call.table.entry_count = 2
    /\ Len(call.self.slice) >= 112
    /\ EntryField(SliceFrom(data, call.table.entry_size), call.self.encoding, 48, 8)
           # EntryField(data, call.self.encoding, 48, 8)
    /\ result = Ok([neg |-> FALSE, mag |-> EntryField(data, call.self.encoding, 48, 8)])

(***************************************************************************)
(* The order of the checks of ElfHeader::parse.                            *)
(***************************************************************************)
\* The ident check that fails first, by the bytes of the buffer
IdentFailure ==
    IF TooShort THEN "FileTooSmall"
    ELSE IF BadMagic THEN "InvalidMagicBytes"
    ELSE IF BadClass THEN "UnsupportedClassError"
    ELSE IF BadEncoding THEN "UnsupportedEncodingError"
    ELSE IF BadVersion THEN "UnsupportedElfHeaderVersion"
    ELSE IF BadPadding THEN "NonZeroPadding"
    ELSE "none"

\* The header check that fails first on a 64-bit file whose ident passed
Header64Failure ==
    IF Len(data) < 64 THEN "FileTooSmall"
    ELSE IF Field(20, 4) # <<0, 0, 0, 1>> THEN "UnsupportedElfFileVersion"
    ELSE IF U16At(52) < 64 THEN "InvalidElfHeaderSize"
    ELSE IF U16At(54) < 56 THEN "InvalidProgramHeaderSize"
    ELSE IF U16At(58) < 64 THEN "InvalidSectionHeaderSize"
    ELSE "none"

\* C26: ElfHeader::parse returns a failure of ElfIdent::parse as
\* ParseElfIdentError holding that very error, whatever the rest of the
\* header holds; on a 64-bit file whose ident passed it reports the first
\* failing of: length under 64 (FileTooSmall), object file version not 1,
\* declared header size under 64, program header entry size under 56,
\* section header entry size under 64.
C26_HeaderCheckOrder ==
    IsHeaderParse =>
        /\ IdentFailure # "none" =>
               /\ ErrTag = "ParseElfIdentError"
               /\ result.err.inner.tag = IdentFailure
               /\ result.err.inner = ElfIdent_parse(call.C, call.E, data).err
        /\ (IdentFailure = "none" /\ data[5] = 2) =>
               /\ result.kind # "Panic"
               /\ ErrTag = Header64Failure
               /\ result.kind = "Err" => result.err = [tag |-> Header64Failure]

\* A 64-byte header with a wrong version and a declared header size of 63
\* was reported for its version.
C26_Witness ==
    /\ IsHeaderParse
    /\ IdentFailure = "none"
    /\ data[5] = 2
    /\ Len(data) >= 64
    /\ Field(20, 4) # <<0, 0, 0, 1>>
    /\ U16At(52) < 64
    /\ ErrTag = "UnsupportedElfFileVersion"

\* A header whose ident has a wrong magic and whose version field is wrong
\* too was reported for the magic, wrapped.
C26_WitnessIdent ==
    /\ IsHeaderParse
    /\ Len(data) >= 64
    /\ BadMagic
    /\ SubSeq(data, 21, 24) \notin {<<0, 0, 0, 1>>, <<1, 0, 0, 0>>}
    /\ result = Err([tag |-> "ParseElfIdentError", inner |-> [tag |-> "InvalidMagicBytes"]])

(***************************************************************************)
(* The error kinds of the integer decoder.                                 *)
(***************************************************************************)
\* C28: the offset alone decides the error of parse_*_at: the result is
\* ArithmeticError exactly when offset > data.len(), BoundsError { offset,
\* width, data.len() } exactly when offset <= data.len() and data.len() -
\* offset < width, and Ok in every other case.
C28_ErrorKindByOffset ==
    IsParseAt =>
        /\ result = Err(ArithmeticError) <=> call.offset > Len(data)
        /\ result = Err(BoundsError(call.offset, Width, Len(data))) <=>
               (call.offset <= Len(data) /\ Len(data) - call.offset < Width)
        /\ result.kind = "Ok" <=>
               (call.offset <= Len(data) /\ Len(data) - call.offset >= Width)

\* A big-endian read one byte past the end of a slice that is not empty
\* failed with ArithmeticError.
C28_Witness ==
    /\ IsParseAt
    /\ into_encoding(call.self) = "TwosComplementBigEndian"
    /\ Len(data) > 0
    /\ call.offset = Len(data) + 1
    /\ result = Err(ArithmeticError)

\* A read that starts at the very end of the slice failed with BoundsError.
C28_WitnessBounds ==
    /\ IsParseAt
    /\ call.offset = Len(data)
    /\ result = Err(BoundsError(Len(data), Width, Len(data)))

====
